---- MODULE Spec2Model ----
(***************************************************************************)
(* A model of the detection pipeline of the repository:                    *)
(*   - the YoloE inference engine (src/modules/YoloE.py): the three        *)
(*     bounded queues, the put/get client calls, the accelerator's input   *)
(*     and output callbacks, stop() and update_classes();                  *)
(*   - the alert evaluation of the monitoring window (src/img-search.py):  *)
(*     check_for_search_targets, trigger_security_alert, clear_alert.      *)
(* Every statement of the code that reads or writes shared state without   *)
(* holding _stop_lock is a step of its own, so that the interleavings of   *)
(* the client threads with the accelerator's callback threads are the      *)
(* ones the code admits.                                                   *)
(***************************************************************************)
EXTENDS Integers, Sequences, FiniteSets, TLC

(***************************************************************************)
(* Bounds of the model.                                                    *)
(***************************************************************************)
\* number of put calls made by the producing thread
MaxPuts == 3
\* number of update_classes calls made by the controlling thread
MaxReconf == 1
\* number of evaluations of check_for_search_targets
MaxEvals == 3
\* number of detections handed to plot_dets
MaxDets == 1
\* number of detections handed to plot_dets when some are filtered out
TwoDets == 2
\* calls of the enrollment functions
MaxEnrollments == 2
\* a single call of an enrollment function, beside the tracker's live tracks
OneEnrollment == 1
\* clicks on the viewer, frames the capture thread produces, ticks of fps_timer
MaxToggles == 3
MaxCaptured == 2
MaxPolls == 3
\* frames process_video reads from the video
MaxVideoFrames == 7
\* live frames the tracker submits for detection, calls of detect_faces_in_image
MaxLive == 3
MaxUploads == 2
\* requests made to the API of the movie tracker
MaxRequests == 4

(***************************************************************************)
(* Program constants.                                                      *)
(***************************************************************************)
INPUT_Q_MAXSIZE == 1
MIDDLE_Q_MAXSIZE == 2
OUTPUT_Q_MAXSIZE == 1
\* plot_dets' default alpha, 0.25, in quarters
ALPHA_QUARTERS == 1

\* the class lists update_classes is called with; the engine starts with "person"
ClassSets == {"person", "dog"}
DefaultClasses == "person"

\* (rm_background, do_blur) of the Framedata a client submits
FlagChoices == {<<FALSE, FALSE>>, <<TRUE, TRUE>>}

\* the AsyncAccl objects connect_accl creates: the first in __init__, then one
\* per update_classes call, of which two may be under way at once
Accls == 0..(MaxReconf + 1)

VARIABLES
    \* ---- YoloE fields
    input_q, middle_q, output_q,
    outstanding_frames,        \* self._outstanding_frames
    stopped,                   \* self._stopped
    stop_lock,                 \* self._stop_lock: "free" or the holding thread
    predictor,                 \* class list self._predictor was set up for
    classes, selected_classes,
    rm_background, do_blur,    \* self.rm_background, self.do_blur
    accl,                      \* index of the accelerator self._accl refers to
    accl_model,                \* class list of the model each accelerator runs
    chip,                      \* frames inside each accelerator, in order
    \* ---- thread calling put
    ppc, pdata, pblock, preg,
    \* ---- thread calling get
    gpc, gres, greg, gstart,
    \* ---- thread calling stop / update_classes
    upc, uop, ucls, ureg,
    \* ---- the accelerators' input and output callback threads
    spc, sdata, kpc, korig, kout, kdets, kres,
    \* ---- history
    put_calls, accepted, put_outcome, nret, last_ret, n_drained, n_reconf,
    \* ---- history of the stop() that holds _stop_lock, and of the sentinels
    stop_inflight, stop_counter, stop_discarded, stop_raced, n_sentinels,
    \* ---- alert evaluation (img-search.py)
    target_name, search_targets, last_found_persons, tracked_objects, database,
    alert_active, alert_label, alert_timer,
    evals, now_visible, prev_visible, ever_names, last_triggers,
    \* ---- one call of plot_dets: its arguments, its position, its outcome
    img, dets, opts, plot_pc, plot_result,
    \* ---- enrollment of a reference face (img-search.py)
    tracker_dict,              \* self.tracker.tracker_dict: what each key refers to
    tracker_dict_lock,         \* self.tracker.tracker_dict_lock: "free" or its holder
    live_embedding,            \* embedding of the live track object of each ID
    fake_embedding,            \* fake_obj.embedding
    recognize_q,               \* the requests queued by recognize_put
    wpc, wreq,                 \* the recognition worker and the request it computes
    epc, e_kind, embedding, e_outcome,
    profile_dirs, profile_files, gallery,
    \* ---- history of the enrollments
    n_enroll, e_dirs0, e_files0, e_gallery0, saved, overwritten_live, deleted_live,
    \* ---- history of update_classes calls that raised
    update_raised, retried,
    \* ---- the loop of process_video (text-search.py): its position, its counts
    vpc, v_puts, v_timeouts,
    \* ---- pause of the capture thread (img-search.py)
    capture_pause,             \* self.capture_thread.pause
    compositor_paused,         \* the flag compositor.set_paused sets
    current_frame,             \* self.tracker.current_frame: 0 for None
    last_draw,                 \* the argument of the latest compositor.draw of poll_framerates
    stages_running,            \* the pipeline stages whose threads run
    n_draws, n_toggles, n_captured, n_polls,
    \* ---- detection of the faces of an uploaded image (img-search.py)
    stop_threads,              \* self.tracker.detection_thread.stop_threads
    mx_in, mx_out,             \* images inside self.tracker.mxface, results it holds ready
    dtpc,                      \* the detection thread's position
    fpc, f_result,             \* detect_faces_in_image: its position, what detect_get gave it
    thread_took_upload, n_live, n_uploads,
    \* ---- what process_uploaded_image tells the user after the enrollment
    upload_message, targets_refreshed,
    \* ---- the watched list of the movie tracker's API (backend/main.py)
    OMDB_API_KEY,              \* whether the environment configures a key
    watched_movies,
    post_pc, post_id, post_resp,       \* the POST /api/watched requests
    post_found, post_present,          \* what the lookup gave, what the list held then
    overlapped,                        \* two POSTs for one movie awaited together
    del_pc, del_id, del_len, del_list, del_resp,   \* a DELETE /api/watched/{id}
    del_changed,                       \* its store changed what the list holds
    del_raced,                         \* a POST appended while it ran
    stats_pc, stats_minutes, stats_resp,           \* a GET /api/stats
    list_changed, n_requests

engine_vars == <<input_q, middle_q, output_q, outstanding_frames, stopped, stop_lock,
                 predictor, classes, selected_classes, rm_background, do_blur,
                 accl, accl_model, chip,
                 ppc, pdata, pblock, preg, gpc, gres, greg, gstart,
                 upc, uop, ucls, ureg, spc, sdata, kpc, korig, kout, kdets, kres,
                 put_calls, accepted, put_outcome, nret, last_ret, n_drained, n_reconf,
                 stop_inflight, stop_counter, stop_discarded, stop_raced, n_sentinels>>

alert_vars == <<target_name, search_targets, last_found_persons, tracked_objects,
                database, alert_active, alert_label, alert_timer,
                evals, now_visible, prev_visible, ever_names, last_triggers>>

plot_vars == <<img, dets, opts, plot_pc, plot_result>>

enroll_vars == <<tracker_dict, tracker_dict_lock, live_embedding, fake_embedding,
                 recognize_q, wpc, wreq, epc, e_kind, embedding, e_outcome,
                 profile_dirs, profile_files, gallery,
                 n_enroll, e_dirs0, e_files0, e_gallery0, saved,
                 overwritten_live, deleted_live>>

fail_vars == <<update_raised, retried>>

video_vars == <<vpc, v_puts, v_timeouts>>

pause_vars == <<capture_pause, compositor_paused, current_frame, last_draw,
                stages_running, n_draws, n_toggles, n_captured, n_polls>>

detect_vars == <<stop_threads, mx_in, mx_out, dtpc, fpc, f_result,
                 thread_took_upload, n_live, n_uploads>>

report_vars == <<upload_message, targets_refreshed>>

api_vars == <<OMDB_API_KEY, watched_movies, post_pc, post_id, post_resp,
              post_found, post_present, overlapped,
              del_pc, del_id, del_len, del_list, del_resp, del_changed, del_raced,
              stats_pc, stats_minutes, stats_resp, list_changed, n_requests>>

more_vars == <<detect_vars, report_vars, api_vars>>

other_vars == <<enroll_vars, fail_vars, video_vars, pause_vars, more_vars>>

vars == <<engine_vars, alert_vars, plot_vars, other_vars>>

(***************************************************************************)
(* Groups of variables.                                                    *)
(***************************************************************************)
qvars == <<input_q, middle_q, output_q>>
cfgvars == <<predictor, classes, selected_classes>>
flagvars == <<rm_background, do_blur>>
pvars == <<ppc, pdata, pblock, preg>>
gvars == <<gpc, gres, greg, gstart>>
uvars == <<upc, uop, ucls, ureg>>
svars == <<spc, sdata>>
kvars == <<kpc, korig, kout, kdets, kres>>
puthist == <<put_calls, accepted, put_outcome>>
rethist == <<nret, last_ret>>
reconfhist == <<n_drained, n_reconf>>
stophist == <<stop_inflight, stop_counter, stop_discarded, stop_raced, n_sentinels>>

(***************************************************************************)
(* Values.                                                                 *)
(***************************************************************************)
\* the sentinel stop() places on input_q
NoneData == [id |-> 0, rm_background |-> FALSE, do_blur |-> FALSE, gen |-> 0]

\* Framedata: id numbers the accepted frames 1, 2, ...; gen is the number of
\* drains of update_classes that had finished when put accepted the frame
Framedata(i, fl, g) == [id |-> i, rm_background |-> fl[1], do_blur |-> fl[2], gen |-> g]

\* data.orig_frame; req_rm and req_blur remember the flags it was submitted with
OrigFrame(d) == [id |-> d.id, gen |-> d.gen,
                 req_rm |-> d.rm_background, req_blur |-> d.do_blur]
NoFrame == [id |-> 0, gen |-> 0, req_rm |-> FALSE, req_blur |-> FALSE]

\* AnnotatedFrame: image is "annotated" (the rendering of plot_dets) or "orig"
\* (the unmodified orig_frame).  The other fields remember how it was made:
\* frame is the orig_frame taken from middle_q, out_of the frame whose model
\* output was post-processed, pred / sel / model the class lists of the
\* predictor, of _selected_classes and of the accelerator, rm / blur the flags
\* passed to plot_dets, raised whether plot_dets raised, gstart the number of
\* update_classes calls that had returned when the get that took it was called
NoResult == [image |-> "none", frame |-> 0, gen |-> 0, out_of |-> 0,
             pred |-> "none", sel |-> "none", model |-> "none",
             rm |-> FALSE, blur |-> FALSE, req_rm |-> FALSE, req_blur |-> FALSE,
             raised |-> FALSE, gstart |-> 0]


\* the threads that call stop() and update_classes(); text-search.py has one
Ctls == {"U1", "U2"}
MainThread == {"U1"}

\* a stop() is between taking _stop_lock (line 212) and setting _stopped (line 220)
StopInCriticalSection ==
    \E t \in Ctls : upc[t] \in {"s_loop", "s_get", "s_gread", "s_gwrite", "s_put", "s_set"}

(***************************************************************************)
(* queue.Queue(maxsize=n): put blocks (or raises Full) while the queue      *)
(* holds n items, get blocks (or raises Empty) while it holds none.         *)
(***************************************************************************)
QueueAlwaysHasRoom(q, maxsize) == TRUE
QueueHasRoom(q, maxsize) == Len(q) < maxsize

(***************************************************************************)
(* YoloE.__init__: the state after construction, connect_accl included.    *)
(***************************************************************************)
InitEngine ==
    /\ input_q = <<>> /\ middle_q = <<>> /\ output_q = <<>>
    /\ outstanding_frames = 0
    /\ stopped = FALSE
    /\ stop_lock = "free"
    /\ predictor = DefaultClasses
    /\ classes = DefaultClasses
    /\ selected_classes = DefaultClasses
    /\ rm_background = FALSE /\ do_blur = FALSE
    /\ accl = 0
    /\ accl_model = [e \in Accls |-> IF e = 0 THEN DefaultClasses ELSE "none"]
    /\ chip = [e \in Accls |-> <<>>]
    /\ ppc = "idle" /\ pdata = NoneData /\ pblock = TRUE /\ preg = 0
    /\ gpc = "idle" /\ gres = NoResult /\ greg = 0 /\ gstart = 0
    /\ upc = [t \in Ctls |-> "idle"]
    /\ uop = [t \in Ctls |-> "none"]
    /\ ucls = [t \in Ctls |-> "none"]
    /\ ureg = [t \in Ctls |-> 0]
    /\ spc = [e \in Accls |-> IF e = 0 THEN "wait" ELSE "off"]
    /\ sdata = [e \in Accls |-> NoneData]
    /\ kpc = [e \in Accls |-> IF e = 0 THEN "wait" ELSE "off"]
    /\ korig = [e \in Accls |-> NoFrame]
    /\ kout = [e \in Accls |-> NoFrame]
    /\ kdets = [e \in Accls |-> "none"]
    /\ kres = [e \in Accls |-> NoResult]
    /\ put_calls = 0 /\ accepted = 0 /\ put_outcome = "none"
    /\ nret = 0 /\ last_ret = NoResult
    /\ n_drained = 0 /\ n_reconf = 0
    /\ stop_inflight = 0 /\ stop_counter = 0 /\ stop_discarded = 0
    /\ stop_raced = FALSE /\ n_sentinels = 0

(***************************************************************************)
(* YoloE.put(data, block, timeout)                                         *)
(***************************************************************************)
PutNeverSeesStopped == FALSE
\* line 224: if self._stopped
PutSeesStopped == stopped

\* what the caller of put observes for each way put ends: line 225 is a bare
\* return, line 228 is the end of the method, and queue.Full leaves line 227
PutReturns(outcome) ==
    CASE outcome = "stopped" -> "None"
      [] outcome = "accepted" -> "None"
      [] outcome = "full" -> "raise queue.Full"
      [] OTHER -> "no call yet"

\* lines 223-225: take _stop_lock, test _stopped, return when stopped
PutCall(fl, block) ==
    /\ ppc = "idle"
    /\ put_calls < MaxPuts
    /\ stop_lock = "free"
    /\ put_calls' = put_calls + 1
    /\ IF PutSeesStopped
         THEN /\ put_outcome' = "stopped"
              /\ UNCHANGED <<stop_lock, ppc, pdata, pblock>>
         ELSE /\ stop_lock' = "P"
              /\ ppc' = "p_enq"
              /\ pdata' = Framedata(accepted + 1, fl, n_drained)
              /\ pblock' = block
              /\ UNCHANGED put_outcome
    /\ UNCHANGED <<input_q, middle_q, output_q, outstanding_frames, stopped,
                   predictor, classes, selected_classes, rm_background, do_blur,
                   accl, accl_model, chip, preg, gpc, gres, greg, gstart,
                   upc, uop, ucls, ureg, spc, sdata, kpc, korig, kout, kdets, kres,
                   accepted, nret, last_ret, n_drained, n_reconf, stophist, alert_vars, plot_vars, other_vars>>

\* line 227: self.input_q.put(data, block, timeout), the item goes in
PutEnqueue ==
    /\ ppc = "p_enq"
    /\ QueueHasRoom(input_q, INPUT_Q_MAXSIZE)
    /\ input_q' = Append(input_q, pdata)
    /\ accepted' = accepted + 1
    /\ ppc' = "p_read"
    /\ UNCHANGED <<middle_q, output_q, outstanding_frames, stopped, stop_lock,
                   predictor, classes, selected_classes, rm_background, do_blur,
                   accl, accl_model, chip, pdata, pblock, preg, gpc, gres, greg, gstart,
                   upc, uop, ucls, ureg, spc, sdata, kpc, korig, kout, kdets, kres,
                   put_calls, put_outcome, nret, last_ret, n_drained, n_reconf, stophist, alert_vars, plot_vars, other_vars>>

\* line 223: an exception that leaves the with block releases _stop_lock
LockKeptAfterFull == "P"
LockAfterFull == "free"

\* line 227 with block=False or a timeout: queue.Full leaves the with block
PutFull ==
    /\ ppc = "p_enq"
    /\ ~pblock
    /\ ~QueueHasRoom(input_q, INPUT_Q_MAXSIZE)
    /\ stop_lock' = LockAfterFull
    /\ ppc' = "idle"
    /\ put_outcome' = "full"
    /\ UNCHANGED <<input_q, middle_q, output_q, outstanding_frames, stopped,
                   predictor, classes, selected_classes, rm_background, do_blur,
                   accl, accl_model, chip, pdata, pblock, preg, gpc, gres, greg, gstart,
                   upc, uop, ucls, ureg, spc, sdata, kpc, korig, kout, kdets, kres,
                   put_calls, accepted, nret, last_ret, n_drained, n_reconf, stophist, alert_vars, plot_vars, other_vars>>

\* line 228: self._outstanding_frames += 1, the load
PutRead ==
    /\ ppc = "p_read"
    /\ preg' = outstanding_frames
    /\ ppc' = "p_write"
    /\ UNCHANGED <<input_q, middle_q, output_q, outstanding_frames, stopped, stop_lock,
                   predictor, classes, selected_classes, rm_background, do_blur,
                   accl, accl_model, chip, pdata, pblock, gpc, gres, greg, gstart,
                   upc, uop, ucls, ureg, spc, sdata, kpc, korig, kout, kdets, kres,
                   put_calls, accepted, put_outcome, nret, last_ret, n_drained, n_reconf, stophist, alert_vars, plot_vars, other_vars>>

\* line 228: the store, then the with block releases _stop_lock
PutWrite ==
    /\ ppc = "p_write"
    /\ outstanding_frames' = preg + 1
    /\ stop_lock' = "free"
    /\ ppc' = "idle"
    /\ put_outcome' = "accepted"
    /\ UNCHANGED <<input_q, middle_q, output_q, stopped,
                   predictor, classes, selected_classes, rm_background, do_blur,
                   accl, accl_model, chip, pdata, pblock, preg, gpc, gres, greg, gstart,
                   upc, uop, ucls, ureg, spc, sdata, kpc, korig, kout, kdets, kres,
                   put_calls, accepted, nret, last_ret, n_drained, n_reconf, stophist, alert_vars, plot_vars, other_vars>>

(***************************************************************************)
(* YoloE.get(block, timeout), called by a client thread                    *)
(***************************************************************************)
GetCall ==
    /\ gpc = "idle"
    /\ gpc' = "g_wait"
    /\ gstart' = n_reconf
    /\ stop_raced' = (stop_raced \/ StopInCriticalSection)
    /\ UNCHANGED <<input_q, middle_q, output_q, outstanding_frames, stopped, stop_lock,
                   predictor, classes, selected_classes, rm_background, do_blur,
                   accl, accl_model, chip, ppc, pdata, pblock, preg, gres, greg,
                   upc, uop, ucls, ureg, spc, sdata, kpc, korig, kout, kdets, kres,
                   put_calls, accepted, put_outcome, nret, last_ret, n_drained, n_reconf, stop_inflight, stop_counter, stop_discarded, n_sentinels,
                   alert_vars, plot_vars, other_vars>>

\* get() with its defaults, line 266: block=True, timeout=None; the caller is
\* parked on output_q until an item arrives
GetCallBlocking ==
    /\ gpc = "idle"
    /\ gpc' = "g_park"
    /\ gstart' = n_reconf
    /\ stop_raced' = (stop_raced \/ StopInCriticalSection)
    /\ UNCHANGED <<input_q, middle_q, output_q, outstanding_frames, stopped, stop_lock,
                   predictor, classes, selected_classes, rm_background, do_blur,
                   accl, accl_model, chip, ppc, pdata, pblock, preg, gres, greg,
                   upc, uop, ucls, ureg, spc, sdata, kpc, korig, kout, kdets, kres,
                   put_calls, accepted, put_outcome, nret, last_ret, n_drained, n_reconf,
                   stop_inflight, stop_counter, stop_discarded, n_sentinels,
                   alert_vars, plot_vars, other_vars>>

\* line 267: self.output_q.get(block, timeout) returns an item
GetTake ==
    /\ gpc \in {"g_wait", "g_park"}
    /\ output_q # <<>>
    /\ gres' = Head(output_q)
    /\ output_q' = Tail(output_q)
    /\ nret' = nret + 1
    /\ last_ret' = [Head(output_q) EXCEPT !.gstart = gstart]
    /\ gpc' = "g_read"
    /\ UNCHANGED <<input_q, middle_q, outstanding_frames, stopped, stop_lock,
                   predictor, classes, selected_classes, rm_background, do_blur,
                   accl, accl_model, chip, ppc, pdata, pblock, preg, greg, gstart,
                   upc, uop, ucls, ureg, spc, sdata, kpc, korig, kout, kdets, kres,
                   put_calls, accepted, put_outcome, n_drained, n_reconf, stophist, alert_vars, plot_vars, other_vars>>

\* line 267: queue.Empty (block=False, or the timeout elapsed)
GetTimeout ==
    /\ gpc = "g_wait"
    /\ output_q = <<>>
    /\ gpc' = "idle"
    /\ UNCHANGED <<input_q, middle_q, output_q, outstanding_frames, stopped, stop_lock,
                   predictor, classes, selected_classes, rm_background, do_blur,
                   accl, accl_model, chip, ppc, pdata, pblock, preg, gres, greg, gstart,
                   upc, uop, ucls, ureg, spc, sdata, kpc, korig, kout, kdets, kres,
                   put_calls, accepted, put_outcome, nret, last_ret, n_drained, n_reconf, stophist, alert_vars, plot_vars, other_vars>>

\* line 268: self._outstanding_frames -= 1, the load
GetRead ==
    /\ gpc = "g_read"
    /\ greg' = outstanding_frames
    /\ gpc' = "g_write"
    /\ UNCHANGED <<input_q, middle_q, output_q, outstanding_frames, stopped, stop_lock,
                   predictor, classes, selected_classes, rm_background, do_blur,
                   accl, accl_model, chip, ppc, pdata, pblock, preg, gres, gstart,
                   upc, uop, ucls, ureg, spc, sdata, kpc, korig, kout, kdets, kres,
                   put_calls, accepted, put_outcome, nret, last_ret, n_drained, n_reconf, stophist, alert_vars, plot_vars, other_vars>>

\* lines 268-269: the store, return annotated_frame
GetWrite ==
    /\ gpc = "g_write"
    /\ outstanding_frames' = greg - 1
    /\ gpc' = "idle"
    /\ UNCHANGED <<input_q, middle_q, output_q, stopped, stop_lock,
                   predictor, classes, selected_classes, rm_background, do_blur,
                   accl, accl_model, chip, ppc, pdata, pblock, preg, gres, greg, gstart,
                   upc, uop, ucls, ureg, spc, sdata, kpc, korig, kout, kdets, kres,
                   put_calls, accepted, put_outcome, nret, last_ret, n_drained, n_reconf,
                   stophist, alert_vars, plot_vars, other_vars>>



(***************************************************************************)
(* YoloE._data_source: the input callback of accelerator e                 *)
(***************************************************************************)
\* lines 231-239: data = self.input_q.get(); None ends the input stream;
\* otherwise the frame's flags are stored on the engine
SrcGet(e) ==
    /\ spc[e] = "wait"
    /\ input_q # <<>>
    /\ input_q' = Tail(input_q)
    /\ IF Head(input_q) = NoneData
         THEN /\ spc' = [spc EXCEPT ![e] = "ended"]
              /\ UNCHANGED <<sdata, rm_background, do_blur>>
         ELSE /\ spc' = [spc EXCEPT ![e] = "got"]
              /\ sdata' = [sdata EXCEPT ![e] = Head(input_q)]
              /\ rm_background' = Head(input_q).rm_background
              /\ do_blur' = Head(input_q).do_blur
    /\ UNCHANGED <<middle_q, output_q, outstanding_frames, stopped, stop_lock, cfgvars,
                   accl, accl_model, chip, pvars, gvars, uvars, kvars,
                   puthist, rethist, reconfhist, stophist, alert_vars, plot_vars, other_vars>>

\* line 243: self.middle_q.put(orig_frame)
SrcMiddlePut(e) ==
    /\ spc[e] = "got"
    /\ QueueHasRoom(middle_q, MIDDLE_Q_MAXSIZE)
    /\ middle_q' = Append(middle_q, OrigFrame(sdata[e]))
    /\ spc' = [spc EXCEPT ![e] = "ret"]
    /\ UNCHANGED <<input_q, output_q, outstanding_frames, stopped, stop_lock, cfgvars,
                   flagvars, accl, accl_model, chip, sdata, pvars, gvars, uvars, kvars,
                   puthist, rethist, reconfhist, stophist, alert_vars, plot_vars, other_vars>>

\* lines 245-250: return ifmap, the frame enters the accelerator
SrcReturn(e) ==
    /\ spc[e] = "ret"
    /\ chip' = [chip EXCEPT ![e] = Append(@, OrigFrame(sdata[e]))]
    /\ spc' = [spc EXCEPT ![e] = "wait"]
    /\ sdata' = [sdata EXCEPT ![e] = NoneData]
    /\ UNCHANGED <<qvars, outstanding_frames, stopped, stop_lock, cfgvars,
                   flagvars, accl, accl_model, pvars, gvars, uvars, kvars,
                   puthist, rethist, reconfhist, stophist, alert_vars, plot_vars, other_vars>>

(***************************************************************************)
(* YoloE._data_sink: the output callback of accelerator e                  *)
(***************************************************************************)
\* line 256: called with the outputs of the accelerator's oldest frame;
\* orig_frame = self.middle_q.get()
SinkGet(e) ==
    /\ kpc[e] = "wait"
    /\ chip[e] # <<>>
    /\ middle_q # <<>>
    /\ kout' = [kout EXCEPT ![e] = Head(chip[e])]
    /\ chip' = [chip EXCEPT ![e] = Tail(@)]
    /\ korig' = [korig EXCEPT ![e] = Head(middle_q)]
    /\ middle_q' = Tail(middle_q)
    /\ kpc' = [kpc EXCEPT ![e] = "post"]
    /\ UNCHANGED <<input_q, output_q, outstanding_frames, stopped, stop_lock, cfgvars,
                   flagvars, accl, accl_model, kdets, kres, pvars, gvars, uvars, svars,
                   puthist, rethist, reconfhist, stophist, alert_vars, plot_vars, other_vars>>

\* lines 257-258: dets = self._predictor.postprocess(preds, placeholder, [orig_frame])
SinkPostprocess(e) ==
    /\ kpc[e] = "post"
    /\ kdets' = [kdets EXCEPT ![e] = predictor]
    /\ kpc' = [kpc EXCEPT ![e] = "plot"]
    /\ UNCHANGED <<qvars, outstanding_frames, stopped, stop_lock, cfgvars,
                   flagvars, accl, accl_model, chip, korig, kout, kres, pvars, gvars,
                   uvars, svars, puthist, rethist, reconfhist, stophist, alert_vars, plot_vars, other_vars>>

\* plot_dets, lines 356-358: raise ValueError when both modes are requested
PlotDetsRaises(remove_background, blur) == remove_background /\ blur

\* lines 259-264: the image of the AnnotatedFrame that _data_sink builds; the
\* except branch wraps orig_frame
SinkImage(raised) == IF raised THEN "orig" ELSE "annotated"

\* lines 259-264: both the try and the except branch go on to output_q.put; an
\* exception that left _data_sink would end the output callback
SinkPlotPropagates(raised) == IF raised THEN "crashed" ELSE "put"
SinkAfterPlot(raised) == "put"

\* lines 259-264: plot_dets(orig_frame, dets[0], self._selected_classes, ...,
\* self.rm_background, self.do_blur, ...) inside try; internal_error is any other
\* exception plot_dets raises on this frame
SinkPlot(e, internal_error) ==
    /\ kpc[e] = "plot"
    /\ LET raised == PlotDetsRaises(rm_background, do_blur) \/ internal_error
       IN /\ kres' = [kres EXCEPT ![e] =
                        [image |-> SinkImage(raised),
                         frame |-> korig[e].id, gen |-> korig[e].gen,
                         out_of |-> kout[e].id,
                         pred |-> kdets[e], sel |-> selected_classes,
                         model |-> accl_model[e],
                         rm |-> rm_background, blur |-> do_blur,
                         req_rm |-> korig[e].req_rm, req_blur |-> korig[e].req_blur,
                         raised |-> raised, gstart |-> 0]]
          /\ kpc' = [kpc EXCEPT ![e] = SinkAfterPlot(raised)]
    /\ UNCHANGED <<qvars, outstanding_frames, stopped, stop_lock, cfgvars,
                   flagvars, accl, accl_model, chip, korig, kout, kdets, pvars, gvars,
                   uvars, svars, puthist, rethist, reconfhist, stophist, alert_vars, plot_vars, other_vars>>

\* lines 261 and 264: self.output_q.put(AnnotatedFrame(...))
SinkPut(e) ==
    /\ kpc[e] = "put"
    /\ QueueHasRoom(output_q, OUTPUT_Q_MAXSIZE)
    /\ output_q' = Append(output_q, kres[e])
    /\ kpc' = [kpc EXCEPT ![e] = "wait"]
    /\ korig' = [korig EXCEPT ![e] = NoFrame]
    /\ kout' = [kout EXCEPT ![e] = NoFrame]
    /\ kdets' = [kdets EXCEPT ![e] = "none"]
    /\ kres' = [kres EXCEPT ![e] = NoResult]
    /\ UNCHANGED <<input_q, middle_q, outstanding_frames, stopped, stop_lock, cfgvars,
                   flagvars, accl, accl_model, chip, pvars, gvars,
                   uvars, svars, puthist, rethist, reconfhist, stophist, alert_vars, plot_vars, other_vars>>


(***************************************************************************)
(* YoloE.empty                                                             *)
(***************************************************************************)
\* line 272: return self.output_q.empty() and self.input_q.empty()
empty == output_q = <<>> /\ input_q = <<>>

(***************************************************************************)
(* YoloE.stop and YoloE.update_classes, called by thread t                 *)
(***************************************************************************)
\* where the caller of stop() continues: update_classes line 282, or the client
AfterStop(t) == IF uop[t] = "update" THEN "r_pred" ELSE "idle"
Drained(t) == IF uop[t] = "update" THEN n_drained + 1 ELSE n_drained

\* a client calls stop() (text-search.py line 193) or update_classes(cls)
\* (text-search.py line 97)
CtlCall(t, op, cls) ==
    /\ upc[t] = "idle"
    /\ op = "update" => accl < MaxReconf
    /\ upc' = [upc EXCEPT ![t] = "s_check"]
    /\ uop' = [uop EXCEPT ![t] = op]
    /\ ucls' = [ucls EXCEPT ![t] = IF op = "update" THEN cls ELSE "none"]
    /\ UNCHANGED <<qvars, outstanding_frames, stopped, stop_lock, cfgvars, flagvars,
                   accl, accl_model, chip, ureg, pvars, gvars, svars, kvars,
                   puthist, rethist, reconfhist, stophist, alert_vars, plot_vars, other_vars>>

\* lines 208-210: if self._stopped: return  (read without the lock)
StopCheck(t) ==
    /\ upc[t] = "s_check"
    /\ IF stopped
         THEN /\ upc' = [upc EXCEPT ![t] = AfterStop(t)]
              /\ n_drained' = Drained(t)
         ELSE /\ upc' = [upc EXCEPT ![t] = "s_lock"]
              /\ UNCHANGED n_drained
    /\ UNCHANGED <<qvars, outstanding_frames, stopped, stop_lock, cfgvars, flagvars,
                   accl, accl_model, chip, uop, ucls, ureg, pvars, gvars, svars, kvars,
                   puthist, rethist, n_reconf, stophist, alert_vars, plot_vars, other_vars>>

\* line 212: with self._stop_lock
StopLock(t) ==
    /\ upc[t] = "s_lock"
    /\ stop_lock = "free"
    /\ stop_lock' = t
    /\ upc' = [upc EXCEPT ![t] = "s_loop"]
    /\ stop_inflight' = accepted - nret
    /\ stop_counter' = outstanding_frames
    /\ stop_discarded' = 0
    /\ stop_raced' = (gpc # "idle")
    /\ UNCHANGED <<qvars, outstanding_frames, stopped, cfgvars, flagvars,
                   accl, accl_model, chip, uop, ucls, ureg, pvars, gvars, svars, kvars,
                   puthist, rethist, reconfhist, n_sentinels, alert_vars, plot_vars, other_vars>>

\* line 213: while self._outstanding_frames > 0
StopMustDrain == outstanding_frames > 0

StopLoop(t) ==
    /\ upc[t] = "s_loop"
    /\ upc' = [upc EXCEPT ![t] = IF StopMustDrain THEN "s_get" ELSE "s_put"]
    /\ UNCHANGED <<qvars, outstanding_frames, stopped, stop_lock, cfgvars, flagvars,
                   accl, accl_model, chip, uop, ucls, ureg, pvars, gvars, svars, kvars,
                   puthist, rethist, reconfhist, stophist, alert_vars, plot_vars, other_vars>>

\* line 215 -> get line 267: self.output_q.get(True, 0.1) returns an item
StopGetTake(t) ==
    /\ upc[t] = "s_get"
    /\ output_q # <<>>
    /\ last_ret' = [Head(output_q) EXCEPT !.gstart = n_reconf]
    /\ nret' = nret + 1
    /\ stop_discarded' = stop_discarded + 1
    /\ output_q' = Tail(output_q)
    /\ upc' = [upc EXCEPT ![t] = "s_gread"]
    /\ UNCHANGED <<input_q, middle_q, outstanding_frames, stopped, stop_lock, cfgvars,
                   flagvars, accl, accl_model, chip, uop, ucls, ureg, pvars, gvars,
                   svars, kvars, puthist, reconfhist, stop_inflight, stop_counter, stop_raced, n_sentinels,
                   alert_vars, plot_vars, other_vars>>

\* lines 216-217: except queue.Empty: continue
StopGetTimeout(t) ==
    /\ upc[t] = "s_get"
    /\ output_q = <<>>
    /\ upc' = [upc EXCEPT ![t] = "s_loop"]
    /\ UNCHANGED <<qvars, outstanding_frames, stopped, stop_lock, cfgvars, flagvars,
                   accl, accl_model, chip, uop, ucls, ureg, pvars, gvars, svars, kvars,
                   puthist, rethist, reconfhist, stophist, alert_vars, plot_vars, other_vars>>

\* get line 268 inside stop: the load of self._outstanding_frames
StopGetRead(t) ==
    /\ upc[t] = "s_gread"
    /\ ureg' = [ureg EXCEPT ![t] = outstanding_frames]
    /\ upc' = [upc EXCEPT ![t] = "s_gwrite"]
    /\ UNCHANGED <<qvars, outstanding_frames, stopped, stop_lock, cfgvars, flagvars,
                   accl, accl_model, chip, uop, ucls, pvars, gvars, svars, kvars,
                   puthist, rethist, reconfhist, stophist, alert_vars, plot_vars, other_vars>>

\* get line 268 inside stop: the store
StopGetWrite(t) ==
    /\ upc[t] = "s_gwrite"
    /\ outstanding_frames' = ureg[t] - 1
    /\ upc' = [upc EXCEPT ![t] = "s_loop"]
    /\ UNCHANGED <<qvars, stopped, stop_lock, cfgvars, flagvars,
                   accl, accl_model, chip, uop, ucls, ureg, pvars, gvars, svars, kvars,
                   puthist, rethist, reconfhist, stophist, alert_vars, plot_vars, other_vars>>

\* line 219: self.input_q.put(None)
StopSentinel(t) ==
    /\ upc[t] = "s_put"
    /\ QueueHasRoom(input_q, INPUT_Q_MAXSIZE)
    /\ input_q' = Append(input_q, NoneData)
    /\ n_sentinels' = n_sentinels + 1
    /\ upc' = [upc EXCEPT ![t] = "s_set"]
    /\ UNCHANGED <<middle_q, output_q, outstanding_frames, stopped, stop_lock, cfgvars,
                   flagvars, accl, accl_model, chip, uop, ucls, ureg, pvars, gvars,
                   svars, kvars, puthist, rethist, reconfhist, stop_inflight, stop_counter, stop_discarded, stop_raced,
                   alert_vars, plot_vars, other_vars>>

\* line 220: self._stopped = True, then the with block releases _stop_lock
StopSet(t) ==
    /\ upc[t] = "s_set"
    /\ stopped' = TRUE
    /\ stop_lock' = "free"
    /\ upc' = [upc EXCEPT ![t] = AfterStop(t)]
    /\ n_drained' = Drained(t)
    /\ stop_inflight' = 0 /\ stop_counter' = 0 /\ stop_discarded' = 0
    /\ stop_raced' = FALSE
    /\ UNCHANGED <<qvars, outstanding_frames, cfgvars, flagvars,
                   accl, accl_model, chip, uop, ucls, ureg, pvars, gvars, svars, kvars,
                   puthist, rethist, n_reconf, n_sentinels, alert_vars, plot_vars, other_vars>>

\* update_classes lines 285-291: self._predictor = setup_predictor(..., classes)
RebuildPredictor(t) ==
    /\ upc[t] = "r_pred"
    /\ predictor' = ucls[t]
    /\ upc' = [upc EXCEPT ![t] = "r_classes"]
    /\ UNCHANGED <<qvars, outstanding_frames, stopped, stop_lock, classes,
                   selected_classes, flagvars, accl, accl_model, chip, uop, ucls, ureg,
                   pvars, gvars, svars, kvars, puthist, rethist, reconfhist, stophist, alert_vars, plot_vars, other_vars>>

\* update_classes lines 292-293 (and the setter, lines 180-185)
RebuildClasses(t) ==
    /\ upc[t] = "r_classes"
    /\ classes' = ucls[t]
    /\ selected_classes' = ucls[t]
    /\ upc' = [upc EXCEPT ![t] = "c_accl"]
    /\ UNCHANGED <<qvars, outstanding_frames, stopped, stop_lock, predictor,
                   flagvars, accl, accl_model, chip, uop, ucls, ureg,
                   pvars, gvars, svars, kvars, puthist, rethist, reconfhist, stophist, alert_vars, plot_vars, other_vars>>

\* update_classes lines 297-312 and connect_accl lines 190-198: self.yoloe, whose
\* classes line 285 set together with the predictor, is exported and compiled, a
\* new AsyncAccl is created and its input and output callbacks are started
ConnectAccl(t) ==
    /\ upc[t] = "c_accl"
    /\ accl' = accl + 1
    /\ accl_model' = [accl_model EXCEPT ![accl + 1] = predictor]
    /\ spc' = [spc EXCEPT ![accl + 1] = "wait"]
    /\ kpc' = [kpc EXCEPT ![accl + 1] = "wait"]
    /\ upc' = [upc EXCEPT ![t] = "c_lock"]
    /\ UNCHANGED <<qvars, outstanding_frames, stopped, stop_lock, cfgvars,
                   flagvars, chip, uop, ucls, ureg, sdata, korig, kout, kdets, kres,
                   pvars, gvars, puthist, rethist, reconfhist, stophist, alert_vars, plot_vars, other_vars>>

\* connect_accl lines 201-202: with self._stop_lock: self._stopped = False;
\* update_classes then returns
ConnectResume(t) ==
    /\ upc[t] = "c_lock"
    /\ stop_lock = "free"
    /\ stopped' = FALSE
    /\ upc' = [upc EXCEPT ![t] = "idle"]
    /\ n_reconf' = n_reconf + 1
    /\ UNCHANGED <<qvars, outstanding_frames, stop_lock, cfgvars,
                   flagvars, accl, accl_model, chip, uop, ucls, ureg,
                   pvars, gvars, svars, kvars, puthist, rethist, n_drained, stophist, alert_vars, plot_vars, other_vars>>


(***************************************************************************)
(* YoloE.plot_dets (a static method), on frames of two pixels.  A pixel is *)
(* a number, 0 being black; a detection carries its class index, the       *)
(* pixels its mask polygon covers ({} when seg is None) and the pixels the *)
(* border of its box covers.                                               *)
(***************************************************************************)
Pixels == {1, 2}
PixelValues == {0, 4, 8}
Images == [Pixels -> PixelValues]

\* dets.names and COLOR_WHEEL (line 23), indexed from 1
Names == <<"person", "dog">>
COLOR_WHEEL == <<6, 10>>

Detections == [cls : {0, 1}, seg : SUBSET Pixels, box : (SUBSET Pixels) \ {{}}]
DetLists == UNION {[1..k -> Detections] : k \in 0..MaxDets}

\* the filter argument: None, or a list of class names
Filters == {[none |-> TRUE, names |-> {}], [none |-> FALSE, names |-> {"person"}]}

\* the other arguments of plot_dets; alpha keeps its default
Options == [filter : Filters, do_seg : BOOLEAN, do_det : BOOLEAN, do_label : BOOLEAN,
            remove_background : BOOLEAN, do_blur : BOOLEAN, blur_sigma : {0, 1}]

\* np.zeros_like(img)
ZerosLike(im) == [i \in DOMAIN im |-> 0]

\* cv2.GaussianBlur(img, (0, 0), sigma): every pixel becomes a weighted mean of
\* itself and its neighbours; on two pixels, the mean of the two
GaussianBlur(im, sigma) ==
    [i \in DOMAIN im |-> (2 * im[i] + 2 * im[IF i = 1 THEN 2 ELSE 1]) \div 4]

\* lines 361-367: the background
ChooseBaseBlursAtSigmaZero(im, remove_background, blur, sigma) ==
    IF remove_background THEN ZerosLike(im)
    ELSE IF blur THEN GaussianBlur(im, 1)
    ELSE im
ChooseBaseBlackOnlyWithoutBlurFlag(im, remove_background, blur, sigma) ==
    IF remove_background /\ sigma = 0 THEN ZerosLike(im)
    ELSE IF sigma > 0 THEN GaussianBlur(im, sigma)
    ELSE im
ChooseBase(im, remove_background, blur, sigma) ==
    IF remove_background THEN ZerosLike(im)
    ELSE IF blur /\ sigma > 0 THEN GaussianBlur(im, sigma)
    ELSE im

\* lines 373-375 and 401-403: the class name of a detection, and the filter
ClassName(d) == Names[d.cls + 1]
KeptWhateverItsClass(d, filter) == TRUE
Kept(d, filter) == filter.none \/ ClassName(d) \in filter.names

\* lines 384 and 407: COLOR_WHEEL[int(cls_idx) % len(COLOR_WHEEL)]
Color(d) == COLOR_WHEEL[(d.cls % Len(COLOR_WHEEL)) + 1]

\* lines 372-385: the loop that fills mask_all and, with do_seg, the overlay
RECURSIVE BuildMasks(_, _, _, _, _)
BuildMasks(ds, filter, do_seg, mask_all, overlay) ==
    IF ds = <<>> THEN [mask_all |-> mask_all, overlay |-> overlay]
    ELSE LET d == Head(ds)
         IN IF ~Kept(d, filter) \/ d.seg = {}
              THEN BuildMasks(Tail(ds), filter, do_seg, mask_all, overlay)
              ELSE BuildMasks(Tail(ds), filter, do_seg, mask_all \cup d.seg,
                              IF do_seg
                                THEN [i \in DOMAIN overlay |->
                                        IF i \in d.seg THEN Color(d) ELSE overlay[i]]
                                ELSE overlay)

\* cv2.addWeighted(img, 1 - alpha, overlay, alpha, 0), alpha in quarters
AddWeighted(a, b, quarters) ==
    [i \in DOMAIN a |-> ((4 - quarters) * a[i] + quarters * b[i]) \div 4]

\* lines 388-396: the masked pixels are pasted onto the background, tinted with
\* do_seg; without a mask the background stays as it is
PasteObjects(im, base, mask_all, overlay, do_seg) ==
    IF mask_all = {} THEN base
    ELSE LET objects == IF do_seg THEN AddWeighted(im, overlay, ALPHA_QUARTERS) ELSE im
         IN [i \in DOMAIN base |-> IF i \in mask_all THEN objects[i] ELSE base[i]]

\* lines 413-420: the label is drawn at the centre of the box
LabelPixel(d) == CHOOSE i \in d.box : \A j \in d.box : i <= j

\* lines 399-420: the loop that draws the box and the label of every kept
\* detection
RECURSIVE DrawBoxes(_, _, _, _, _)
DrawBoxes(ds, filter, do_det, do_label, result) ==
    IF ds = <<>> THEN result
    ELSE LET d == Head(ds)
             boxed == IF do_det
                        THEN [i \in DOMAIN result |->
                                IF i \in d.box THEN Color(d) ELSE result[i]]
                        ELSE result
             labelled == IF do_label
                           THEN [i \in DOMAIN result |->
                                   IF i = LabelPixel(d) THEN Color(d) ELSE boxed[i]]
                           ELSE boxed
         IN DrawBoxes(Tail(ds), filter, do_det, do_label,
                      IF Kept(d, filter) THEN labelled ELSE result)

\* plot_dets, lines 348-422
PlotDets(im, ds, o) ==
    IF PlotDetsRaises(o.remove_background, o.do_blur)
      THEN [raised |-> TRUE, image |-> im]
      ELSE LET base == ChooseBase(im, o.remove_background, o.do_blur, o.blur_sigma)
               m == BuildMasks(ds, o.filter, o.do_seg, {}, ZerosLike(im))
               pasted == PasteObjects(im, base, m.mask_all, m.overlay, o.do_seg)
           IN [raised |-> FALSE,
               image |-> IF o.do_det \/ o.do_label
                           THEN DrawBoxes(ds, o.filter, o.do_det, o.do_label, pasted)
                           ELSE pasted]

(***************************************************************************)
(* Enrollment of a reference face (img-search.py): the values.             *)
(***************************************************************************)
\* line 847 and line 992: track_id = 999
SPECIAL_TRACK_ID == 999

\* the IDs the tracker gives to live tracks: integers, unique among live tracks
LiveTrackIds == {1, SPECIAL_TRACK_ID}
TrackKeys == LiveTrackIds \cup {SPECIAL_TRACK_ID}

\* embeddings: None, np.zeros([128]), and vectors of non-zero norm computed
\* from an uploaded image ("vecU"), from a live track's face ("vecL"), or
\* loaded with the gallery ("vecG")
Embeddings == {"none", "zeros", "vecU", "vecL", "vecG"}
Norm(e) == IF e \in {"none", "zeros"} THEN 0 ELSE 1

\* the profile names an enrollment can be stored under
EnrollNames == {"Alice", "Bob"}

\* no enrollment is modelled
InitEnrollIdle ==
    /\ tracker_dict = [i \in TrackKeys |-> "none"]
    /\ tracker_dict_lock = "free"
    /\ live_embedding = [i \in LiveTrackIds |-> "none"]
    /\ fake_embedding = "none"
    /\ recognize_q = <<>>
    /\ wpc = "idle" /\ wreq = [track_id |-> SPECIAL_TRACK_ID, image |-> "none"]
    /\ epc = "off" /\ e_kind = "none" /\ embedding = "none" /\ e_outcome = "none"
    /\ profile_dirs = {} /\ profile_files = [n \in EnrollNames |-> {}]
    /\ gallery = [n \in EnrollNames |-> <<>>]
    /\ n_enroll = 0
    /\ e_dirs0 = {} /\ e_files0 = [n \in EnrollNames |-> {}]
    /\ e_gallery0 = [n \in EnrollNames |-> <<>>]
    /\ saved = <<>> /\ overwritten_live = FALSE /\ deleted_live = FALSE

\* the pipeline stages of the monitoring window
Stages == {"capture", "tracker", "compositor"}

\* no update_classes call has raised
InitFailIdle == update_raised = FALSE /\ retried = FALSE

\* process_video is not modelled
InitVideoIdle == vpc = "off" /\ v_puts = 0 /\ v_timeouts = 0

\* Demo.__init__ lines 65-83 and 144-145: the capture thread runs unpaused and
\* the compositor is told so; pause is not modelled
InitPauseIdle ==
    /\ capture_pause = FALSE /\ compositor_paused = FALSE
    /\ current_frame = 0
    /\ last_draw = [frame |-> 0, copy |-> FALSE]
    /\ stages_running = Stages
    /\ n_draws = 0 /\ n_toggles = 0 /\ n_captured = 0 /\ n_polls = 0

\* Demo.__init__ line 144: the tracker's detection thread runs; no upload is
\* modelled
InitDetectIdle ==
    /\ stop_threads = FALSE
    /\ mx_in = <<>> /\ mx_out = <<>>
    /\ dtpc = "top"
    /\ fpc = "off" /\ f_result = [kind |-> "none", n |-> 0]
    /\ thread_took_upload = FALSE /\ n_live = 0 /\ n_uploads = 0

\* no image has been uploaded
InitReportIdle == upload_message = "none" /\ targets_refreshed = FALSE

\* the POST requests that can be under way at once
PostRequests == {"r1", "r2"}

\* main.py lines 31-32: watched_movies = []; no request is modelled
InitApiIdle ==
    /\ OMDB_API_KEY = TRUE
    /\ watched_movies = <<>>
    /\ post_pc = [r \in PostRequests |-> "off"]
    /\ post_id = [r \in PostRequests |-> <<>>]
    /\ post_resp = [r \in PostRequests |-> 0]
    /\ post_found = [r \in PostRequests |-> FALSE]
    /\ post_present = [r \in PostRequests |-> FALSE]
    /\ overlapped = FALSE
    /\ del_pc = "off" /\ del_id = <<>> /\ del_len = 0 /\ del_list = <<>> /\ del_resp = 0
    /\ del_changed = FALSE /\ del_raced = FALSE
    /\ stats_pc = "off" /\ stats_minutes = 0
    /\ stats_resp = [total_minutes |-> 0, total_count |-> 0]
    /\ list_changed = FALSE /\ n_requests = 0

InitMoreIdle == InitDetectIdle /\ InitReportIdle /\ InitApiIdle

InitOtherIdle ==
    InitEnrollIdle /\ InitFailIdle /\ InitVideoIdle /\ InitPauseIdle /\ InitMoreIdle

\* Demo.__init__ lines 167-174 with no database and no target: the alert
\* evaluation is not modelled
InitAlertIdle ==
    /\ target_name = "" /\ search_targets = {} /\ last_found_persons = {}
    /\ tracked_objects = <<>> /\ database = {}
    /\ alert_active = FALSE /\ alert_label = "NO ALERTS" /\ alert_timer = FALSE
    /\ evals = 0 /\ now_visible = {} /\ prev_visible = {} /\ ever_names = {}
    /\ last_triggers = <<>>

\* no call of plot_dets is modelled
InitPlotIdle ==
    /\ img = [i \in Pixels |-> 0]
    /\ dets = <<>>
    /\ opts = [filter |-> [none |-> TRUE, names |-> {}], do_seg |-> TRUE, do_det |-> TRUE,
               do_label |-> TRUE, remove_background |-> FALSE, do_blur |-> FALSE,
               blur_sigma |-> 0]
    /\ plot_pc = "off"
    /\ plot_result = [raised |-> FALSE, image |-> [i \in Pixels |-> 0]]

\* a call of plot_dets on any frame, detections and options
InitPlot ==
    /\ img \in Images
    /\ dets \in DetLists
    /\ opts \in Options
    /\ plot_pc = "ready"
    /\ plot_result = [raised |-> FALSE, image |-> [i \in Pixels |-> 0]]

PlotDetsCall ==
    /\ plot_pc = "ready"
    /\ plot_result' = PlotDets(img, dets, opts)
    /\ plot_pc' = "done"
    /\ UNCHANGED <<img, dets, opts, engine_vars, alert_vars, other_vars>>

NextPlot == PlotDetsCall

InitPlotSpec == InitEngine /\ InitAlertIdle /\ InitPlot /\ InitOtherIdle

SpecPlot == InitPlotSpec /\ [][NextPlot]_vars

\* a call of plot_dets with a list of selected classes as its filter (as
\* _data_sink calls it, line 260) and two detections
InitPlotFilter ==
    /\ img \in Images
    /\ dets \in [1..TwoDets -> Detections]
    /\ opts \in {o \in Options : ~o.filter.none}
    /\ plot_pc = "ready"
    /\ plot_result = [raised |-> FALSE, image |-> [i \in Pixels |-> 0]]

InitPlotFilterSpec == InitEngine /\ InitAlertIdle /\ InitPlotFilter /\ InitOtherIdle

SpecPlotFilter == InitPlotFilterSpec /\ [][NextPlot]_vars

(***************************************************************************)
(* The engine under reconfiguration: one thread calls put with the default *)
(* Framedata flags, one calls get, one calls update_classes; the           *)
(* accelerators' callback threads run beside them.                         *)
(***************************************************************************)
\* Framedata defaults, lines 102-103: rm_background = False, do_blur = False
DefaultFlags == <<FALSE, FALSE>>

Init == InitEngine /\ InitAlertIdle /\ InitPlotIdle /\ InitOtherIdle

Next ==
    \/ PutCall(DefaultFlags, TRUE)
    \/ PutEnqueue
    \/ PutRead
    \/ PutWrite
    \/ GetCall
    \/ GetTake
    \/ GetTimeout
    \/ GetRead
    \/ GetWrite
    \/ \E e \in Accls : SrcGet(e)
    \/ \E e \in Accls : SrcMiddlePut(e)
    \/ \E e \in Accls : SrcReturn(e)
    \/ \E e \in Accls : SinkGet(e)
    \/ \E e \in Accls : SinkPostprocess(e)
    \/ \E e \in Accls : SinkPlot(e, FALSE)
    \/ \E e \in Accls : SinkPut(e)
    \/ \E t \in MainThread, cls \in ClassSets : CtlCall(t, "update", cls)
    \/ \E t \in MainThread : StopCheck(t)
    \/ \E t \in MainThread : StopLock(t)
    \/ \E t \in MainThread : StopLoop(t)
    \/ \E t \in MainThread : StopGetTake(t)
    \/ \E t \in MainThread : StopGetTimeout(t)
    \/ \E t \in MainThread : StopGetRead(t)
    \/ \E t \in MainThread : StopGetWrite(t)
    \/ \E t \in MainThread : StopSentinel(t)
    \/ \E t \in MainThread : StopSet(t)
    \/ \E t \in MainThread : RebuildPredictor(t)
    \/ \E t \in MainThread : RebuildClasses(t)
    \/ \E t \in MainThread : ConnectAccl(t)
    \/ \E t \in MainThread : ConnectResume(t)

Spec == Init /\ [][Next]_vars

(***************************************************************************)
(* The engine rendering frames of any flags: one thread calls put          *)
(* (blocking or not), one calls get; plot_dets may raise on any frame.     *)
(***************************************************************************)
NextRender ==
    \/ \E fl \in FlagChoices, block \in BOOLEAN : PutCall(fl, block)
    \/ PutEnqueue
    \/ PutFull
    \/ PutRead
    \/ PutWrite
    \/ GetCall
    \/ GetTake
    \/ GetTimeout
    \/ GetRead
    \/ GetWrite
    \/ SrcGet(0)
    \/ SrcMiddlePut(0)
    \/ SrcReturn(0)
    \/ SinkGet(0)
    \/ SinkPostprocess(0)
    \/ \E internal_error \in BOOLEAN : SinkPlot(0, internal_error)
    \/ SinkPut(0)

SpecRender == Init /\ [][NextRender]_vars


(***************************************************************************)
(* The engine being stopped: one thread calls put, one calls get (with a   *)
(* timeout, or with the defaults), and two threads call stop(); no         *)
(* update_classes, so the engine has its first accelerator only.           *)
(***************************************************************************)
NextStop ==
    \/ PutCall(DefaultFlags, TRUE)
    \/ PutEnqueue
    \/ PutRead
    \/ PutWrite
    \/ GetCall
    \/ GetCallBlocking
    \/ GetTake
    \/ GetTimeout
    \/ GetRead
    \/ GetWrite
    \/ SrcGet(0)
    \/ SrcMiddlePut(0)
    \/ SrcReturn(0)
    \/ SinkGet(0)
    \/ SinkPostprocess(0)
    \/ SinkPlot(0, FALSE)
    \/ SinkPut(0)
    \/ \E t \in Ctls : CtlCall(t, "stop", "none")
    \/ \E t \in Ctls : StopCheck(t)
    \/ \E t \in Ctls : StopLock(t)
    \/ \E t \in Ctls : StopLoop(t)
    \/ \E t \in Ctls : StopGetTake(t)
    \/ \E t \in Ctls : StopGetTimeout(t)
    \/ \E t \in Ctls : StopGetRead(t)
    \/ \E t \in Ctls : StopGetWrite(t)
    \/ \E t \in Ctls : StopSentinel(t)
    \/ \E t \in Ctls : StopSet(t)

InitStop == InitEngine /\ InitAlertIdle /\ InitPlotIdle /\ InitOtherIdle

SpecStop == InitStop /\ [][NextStop]_vars

(***************************************************************************)
(* The same, with the threads scheduled: a call that is under way takes    *)
(* its next step when it can, and the accelerator's callbacks keep         *)
(* processing what is queued.  Whether and when a client calls put, get or *)
(* stop is left open.                                                      *)
(***************************************************************************)
\* put, lines 227-228, once the call holds _stop_lock
PutStep == PutEnqueue \/ PutRead \/ PutWrite

\* get, lines 267-269, once the call is made
GetStep == GetTake \/ GetTimeout \/ GetRead \/ GetWrite

\* the input and the output callback of the first accelerator
SourceStep == SrcGet(0) \/ SrcMiddlePut(0) \/ SrcReturn(0)
SinkStep == SinkGet(0) \/ SinkPostprocess(0) \/ SinkPlot(0, FALSE) \/ SinkPut(0)

\* stop, lines 208-220, once the call is made
StopStep(t) ==
    \/ StopCheck(t) \/ StopLock(t) \/ StopLoop(t) \/ StopGetTake(t)
    \/ StopGetTimeout(t) \/ StopGetRead(t) \/ StopGetWrite(t)
    \/ StopSentinel(t) \/ StopSet(t)

SpecStopFair ==
    /\ InitStop /\ [][NextStop]_vars
    /\ WF_vars(PutStep) /\ WF_vars(GetStep)
    /\ WF_vars(SourceStep) /\ WF_vars(SinkStep)
    /\ \A t \in Ctls : WF_vars(StopStep(t))

(***************************************************************************)
(* Two threads call update_classes at the same time on an idle engine.     *)
(***************************************************************************)
NextConcurrentUpdate ==
    \/ \E t \in Ctls, cls \in ClassSets : CtlCall(t, "update", cls)
    \/ \E t \in Ctls : StopCheck(t)
    \/ \E t \in Ctls : StopLock(t)
    \/ \E t \in Ctls : StopLoop(t)
    \/ \E t \in Ctls : StopSentinel(t)
    \/ \E t \in Ctls : StopSet(t)
    \/ \E t \in Ctls : RebuildPredictor(t)
    \/ \E t \in Ctls : RebuildClasses(t)
    \/ \E t \in Ctls : ConnectAccl(t)
    \/ \E t \in Ctls : ConnectResume(t)
    \/ \E e \in Accls : SrcGet(e)

InitConcurrentUpdate == InitEngine /\ InitAlertIdle /\ InitPlotIdle /\ InitOtherIdle

SpecConcurrentUpdate == InitConcurrentUpdate /\ [][NextConcurrentUpdate]_vars

(***************************************************************************)
(* Alert evaluation of the monitoring window (img-search.py).  All of it   *)
(* runs in slots of the GUI thread, one handler at a time.                 *)
(***************************************************************************)
TrackIds == {1, 2}
ProfileNames == {"Alice", "Bob", "Unknown"}
\* the names a tracked object carries: a profile's name, or the default "Unknown"
ObjectNames == ProfileNames

TrackedObject(i, n) == [track_id |-> i, name |-> n]

\* tracker.get_activated_tracker_objects(): a list of tracked objects with
\* pairwise distinct track IDs
TrackedObjects == {TrackedObject(i, n) : i \in TrackIds, n \in ObjectNames}
ActivatedLists ==
    {<<>>}
    \cup {<<a>> : a \in TrackedObjects}
    \cup {l \in {<<a, b>> : a \in TrackedObjects, b \in TrackedObjects} :
            l[1].track_id # l[2].track_id}

\* lines 595-605: the specific target, or every profile but 'Unknown'
SearchTargetsOf(tname, db) ==
    IF tname # "" THEN {tname} ELSE {n \in db : n # "Unknown"}

\* Demo.__init__ lines 167-183: alert state, then update_search_targets() on the
\* database loaded at startup
InitAlert ==
    /\ target_name \in {"", "Alice"}
    /\ database \in SUBSET ProfileNames
    /\ search_targets = SearchTargetsOf(target_name, database)
    /\ last_found_persons = {}
    /\ tracked_objects = <<>>
    /\ alert_active = FALSE /\ alert_label = "NO ALERTS" /\ alert_timer = FALSE
    /\ evals = 0 /\ now_visible = {} /\ prev_visible = {} /\ ever_names = {}
    /\ last_triggers = <<>>

\* the tracker thread activates, renames and removes tracks between two
\* evaluations
TrackerUpdate(objs) ==
    /\ tracked_objects # objs
    /\ tracked_objects' = objs
    /\ UNCHANGED <<target_name, search_targets, last_found_persons, database,
                   alert_active, alert_label, alert_timer,
                   evals, now_visible, prev_visible, ever_names, last_triggers,
                   engine_vars, plot_vars, other_vars>>

\* line 524: if obj.name and obj.name in self.search_targets
IsNamed(obj, targets) == obj.name # ""
IsSearchTarget(obj, targets) == obj.name # "" /\ obj.name \in targets

\* line 528: if obj.track_id not in self.last_found_persons
AlwaysNewlyFound(obj, last) == TRUE
IsNewlyFound(obj, last) == obj.track_id \notin last

\* lines 521-529: the loop over tracked_objects; found is current_found_persons,
\* alerts the calls of trigger_security_alert in order
RECURSIVE ScanObjects(_, _, _)
ScanObjects(objs, targets, last) ==
    IF objs = <<>> THEN [found |-> {}, alerts |-> <<>>]
    ELSE LET obj == Head(objs)
             rest == ScanObjects(Tail(objs), targets, last)
         IN IF IsSearchTarget(obj, targets)
              THEN [found |-> {obj.track_id} \cup rest.found,
                    alerts |-> (IF IsNewlyFound(obj, last) THEN <<obj>> ELSE <<>>)
                               \o rest.alerts]
              ELSE rest

\* line 532: self.last_found_persons = current_found_persons
AccumulateLastFound(current, last) == current \cup last
NextLastFound(current, last) == current

\* trigger_security_alert line 539: the label after the calls in alerts
LabelOfFirst(alerts, label) ==
    IF alerts = <<>> THEN label ELSE alerts[1].name
LabelAfter(alerts, label) ==
    IF alerts = <<>> THEN label ELSE alerts[Len(alerts)].name

\* trigger_security_alert line 566: self.alert_timer.start(5000) at every call;
\* the value is whether the single-shot timer is pending
TimerNotStarted(alerts, timer) == timer
TimerAfter(alerts, timer) == timer \/ alerts # <<>>

\* the objects that are visible search targets now
VisibleTargets ==
    {tracked_objects[k] : k \in {j \in DOMAIN tracked_objects :
        tracked_objects[j].name # "" /\ tracked_objects[j].name \in search_targets}}

\* check_for_search_targets, lines 515-532, with trigger_security_alert,
\* lines 534-566, for every alert it raises
CheckForSearchTargets ==
    /\ evals < MaxEvals
    /\ evals' = evals + 1
    /\ now_visible' = VisibleTargets
    /\ prev_visible' = now_visible
    /\ ever_names' = ever_names \cup {o.name : o \in prev_visible}
    /\ IF search_targets = {}
         THEN /\ last_triggers' = <<>>
              /\ UNCHANGED <<last_found_persons, alert_active, alert_label, alert_timer>>
         ELSE LET scan == ScanObjects(tracked_objects, search_targets, last_found_persons)
              IN /\ last_triggers' = scan.alerts
                 /\ last_found_persons' = NextLastFound(scan.found, last_found_persons)
                 /\ alert_label' = LabelAfter(scan.alerts, alert_label)
                 /\ alert_active' = (alert_active \/ scan.alerts # <<>>)
                 /\ alert_timer' = TimerAfter(scan.alerts, alert_timer)
    /\ UNCHANGED <<target_name, search_targets, tracked_objects, database, engine_vars, plot_vars, other_vars>>

\* clear_alert, lines 568-591: the single-shot timer fires
ClearAlert ==
    /\ alert_timer
    /\ alert_timer' = FALSE
    /\ alert_active' = FALSE
    /\ alert_label' = "NO ALERTS"
    /\ UNCHANGED <<target_name, search_targets, last_found_persons, tracked_objects,
                   database, evals, now_visible, prev_visible, ever_names,
                   last_triggers, engine_vars, plot_vars, other_vars>>

\* process_uploaded_image lines 770-774: a face is enrolled under profile name n,
\* then update_search_targets(), lines 593-608
EnrollAndUpdateSearchTargets(n) ==
    /\ n \notin database
    /\ database' = database \cup {n}
    /\ search_targets' = SearchTargetsOf(target_name, database')
    /\ UNCHANGED <<target_name, last_found_persons, tracked_objects,
                   alert_active, alert_label, alert_timer,
                   evals, now_visible, prev_visible, ever_names, last_triggers,
                   engine_vars, plot_vars, other_vars>>

NextAlert ==
    \/ \E objs \in ActivatedLists : TrackerUpdate(objs)
    \/ CheckForSearchTargets
    \/ ClearAlert
    \/ \E n \in ProfileNames : EnrollAndUpdateSearchTargets(n)

InitAlertSpec == InitEngine /\ InitAlert /\ InitPlotIdle /\ InitOtherIdle

SpecAlert == InitAlertSpec /\ [][NextAlert]_vars

\* the same with the Qt event loop delivering the timeout of a pending
\* single-shot timer (lines 172-174)
SpecAlertTimer == InitAlertSpec /\ [][NextAlert]_vars /\ WF_vars(ClearAlert)


(***************************************************************************)
(* Enrollment of a reference face (img-search.py).  The GUI thread runs    *)
(* process_face_like_mouse_click (an uploaded image) or                    *)
(* process_target_face_automatically (the target image at startup); the    *)
(* tracker thread and the recognition worker run beside it.                *)
(***************************************************************************)
dictvars == <<tracker_dict, live_embedding, fake_embedding>>
wvars == <<recognize_q, wpc, wreq>>
evars == <<epc, e_kind, embedding, e_outcome>>
diskvars == <<profile_dirs, profile_files, gallery>>
ehist == <<n_enroll, e_dirs0, e_files0, e_gallery0, saved, overwritten_live, deleted_live>>
alert_rest == <<target_name, last_found_persons, tracked_objects,
                alert_active, alert_label, alert_timer,
                evals, now_visible, prev_visible, ever_names, last_triggers>>

\* the recognition queue is bounded
RECOGNIZE_Q_MAXSIZE == 1

\* the directories and numbered images found on disk at startup, one gallery
\* embedding loaded for each image
DiskLayouts ==
    {d \in [dirs : SUBSET {"Alice"}, files : [EnrollNames -> {{}, {0}, {1}}]] :
        \A n \in EnrollNames : n \notin d.dirs => d.files[n] = {}}

InitEnroll ==
    /\ tracker_dict = [i \in TrackKeys |-> "none"]
    /\ tracker_dict_lock = "free"
    /\ live_embedding = [i \in LiveTrackIds |-> "none"]
    /\ fake_embedding = "none"
    /\ recognize_q = <<>>
    /\ wpc = "idle" /\ wreq = [track_id |-> SPECIAL_TRACK_ID, image |-> "none"]
    /\ epc = "idle" /\ e_kind = "none" /\ embedding = "none" /\ e_outcome = "none"
    /\ \E d \in DiskLayouts :
          /\ profile_dirs = d.dirs
          /\ profile_files = d.files
          /\ gallery = [n \in EnrollNames |->
                          [k \in 1..Cardinality(d.files[n]) |-> "vecG"]]
          /\ e_dirs0 = d.dirs /\ e_files0 = d.files
    /\ e_gallery0 = gallery
    /\ n_enroll = 0
    /\ saved = <<>> /\ overwritten_live = FALSE /\ deleted_live = FALSE

\* Demo.__init__ lines 167-183 for the enrollment: the database holds the
\* profiles that have an embedding
InitEnrollAlert ==
    /\ target_name \in {"", "Alice"}
    /\ database = {n \in EnrollNames : gallery[n] # <<>>}
    /\ search_targets = SearchTargetsOf(target_name, database)
    /\ last_found_persons = {} /\ tracked_objects = <<>>
    /\ alert_active = FALSE /\ alert_label = "NO ALERTS" /\ alert_timer = FALSE
    /\ evals = 0 /\ now_visible = {} /\ prev_visible = {} /\ ever_names = {}
    /\ last_triggers = <<>>

\* ---- the tracker thread and the recognition worker ----------------------

\* a new live track gets its ID and its entry in the shared map, under the mutex
TrackerActivate(i) ==
    /\ tracker_dict_lock = "free"
    /\ tracker_dict[i] # "live"
    /\ tracker_dict' = [tracker_dict EXCEPT ![i] = "live"]
    /\ live_embedding' = [live_embedding EXCEPT ![i] = "none"]
    /\ UNCHANGED <<fake_embedding, tracker_dict_lock, wvars, evars, diskvars, ehist,
                   engine_vars, alert_vars, plot_vars, fail_vars, video_vars, pause_vars, more_vars>>

\* a live track ends and leaves the shared map, under the mutex
TrackerRemove(i) ==
    /\ tracker_dict_lock = "free"
    /\ tracker_dict[i] = "live"
    /\ tracker_dict' = [tracker_dict EXCEPT ![i] = "none"]
    /\ live_embedding' = [live_embedding EXCEPT ![i] = "none"]
    /\ UNCHANGED <<fake_embedding, tracker_dict_lock, wvars, evars,
                   diskvars, ehist, engine_vars, alert_vars, plot_vars, fail_vars, video_vars, pause_vars, more_vars>>

\* a live track lacking an embedding is submitted to the recognition queue,
\* tagged with its track ID
TrackerSubmit(i) ==
    /\ tracker_dict[i] = "live" /\ live_embedding[i] = "none"
    /\ Len(recognize_q) < RECOGNIZE_Q_MAXSIZE
    /\ recognize_q' = Append(recognize_q, [track_id |-> i, image |-> "live"])
    /\ UNCHANGED <<dictvars, tracker_dict_lock, wpc, wreq, evars, diskvars, ehist,
                   engine_vars, alert_vars, plot_vars, fail_vars, video_vars, pause_vars, more_vars>>

\* the recognition worker takes a request
WorkerTake ==
    /\ wpc = "idle" /\ recognize_q # <<>>
    /\ wreq' = Head(recognize_q)
    /\ recognize_q' = Tail(recognize_q)
    /\ wpc' = "compute"
    /\ UNCHANGED <<dictvars, tracker_dict_lock, evars, diskvars, ehist,
                   engine_vars, alert_vars, plot_vars, fail_vars, video_vars, pause_vars, more_vars>>

\* the embedding the model computes from a request's image
EmbeddingOf(image) == IF image = "live" THEN "vecL" ELSE "vecU"

\* the worker writes the embedding into the object the map holds under the
\* request's track ID, under the mutex
WorkerWrite ==
    /\ wpc = "compute"
    /\ tracker_dict_lock = "free"
    /\ wpc' = "idle"
    /\ LET i == wreq.track_id
       IN CASE tracker_dict[i] = "fake" ->
                  /\ fake_embedding' = EmbeddingOf(wreq.image)
                  /\ UNCHANGED live_embedding
            [] tracker_dict[i] = "live" ->
                  /\ live_embedding' = [live_embedding EXCEPT ![i] = EmbeddingOf(wreq.image)]
                  /\ UNCHANGED fake_embedding
            [] OTHER -> UNCHANGED <<live_embedding, fake_embedding>>
    /\ UNCHANGED <<tracker_dict, tracker_dict_lock, recognize_q, wreq, evars, diskvars,
                   ehist, engine_vars, alert_vars, plot_vars, fail_vars, video_vars, pause_vars, more_vars>>

\* ---- the enrollment on the GUI thread ------------------------------------

\* lines 822-847 / 967-992: crop the face, build fake_obj with
\* embedding = np.zeros([128])
EnrollCall(kind, limit) ==
    /\ epc = "idle"
    /\ n_enroll < limit
    /\ kind = "startup" => (target_name # "" /\ n_enroll = 0)
    /\ n_enroll' = n_enroll + 1
    /\ e_kind' = kind
    /\ fake_embedding' = "zeros"
    /\ embedding' = "none"
    /\ e_outcome' = "running"
    /\ epc' = "insert"
    /\ e_dirs0' = profile_dirs /\ e_files0' = profile_files /\ e_gallery0' = gallery
    /\ UNCHANGED <<tracker_dict, live_embedding, tracker_dict_lock, wvars, diskvars,
                   saved, overwritten_live, deleted_live,
                   engine_vars, alert_vars, plot_vars, fail_vars, video_vars, pause_vars, more_vars>>

\* the three 'with self.tracker.tracker_dict_lock:' of lines 850, 864, 884
\* (995, 1009, 1029)
EnrollAcquire ==
    /\ epc \in {"insert", "poll", "cleanup"}
    /\ tracker_dict_lock = "free"
    /\ tracker_dict_lock' = "G"
    /\ epc' = CASE epc = "insert" -> "insert_locked"
                [] epc = "poll" -> "poll_locked"
                [] OTHER -> "cleanup_locked"
    /\ UNCHANGED <<dictvars, wvars, e_kind, embedding, e_outcome, diskvars, ehist,
                   engine_vars, alert_vars, plot_vars, fail_vars, video_vars, pause_vars, more_vars>>

\* line 851 / 996: self.tracker.tracker_dict[track_id] = fake_obj
EnrollInsert ==
    /\ epc = "insert_locked"
    /\ tracker_dict' = [tracker_dict EXCEPT ![SPECIAL_TRACK_ID] = "fake"]
    /\ overwritten_live' = (overwritten_live \/ tracker_dict[SPECIAL_TRACK_ID] = "live")
    /\ tracker_dict_lock' = "free"
    /\ epc' = "recognize_put"
    /\ UNCHANGED <<live_embedding, fake_embedding, wvars, e_kind, embedding, e_outcome,
                   diskvars, n_enroll, e_dirs0, e_files0, e_gallery0, saved, deleted_live,
                   engine_vars, alert_vars, plot_vars, fail_vars, video_vars, pause_vars, more_vars>>

\* lines 855-858 / 1000-1003: recognize_put(..., block=True, timeout=10.0) finds room
EnrollRecognizePut ==
    /\ epc = "recognize_put"
    /\ Len(recognize_q) < RECOGNIZE_Q_MAXSIZE
    /\ recognize_q' = Append(recognize_q, [track_id |-> SPECIAL_TRACK_ID, image |-> "upload"])
    /\ epc' = "poll"
    /\ UNCHANGED <<dictvars, tracker_dict_lock, wpc, wreq, e_kind, embedding, e_outcome,
                   diskvars, ehist, engine_vars, alert_vars, plot_vars, fail_vars, video_vars, pause_vars, more_vars>>

\* the same call raises when the queue stays full for 10 s; lines 879-881 /
\* 1024-1026 catch it and return through the finally clause
EnrollRecognizePutRaises ==
    /\ epc = "recognize_put"
    /\ Len(recognize_q) >= RECOGNIZE_Q_MAXSIZE
    /\ e_outcome' = "exception"
    /\ epc' = "cleanup"
    /\ UNCHANGED <<dictvars, tracker_dict_lock, wvars, e_kind, embedding,
                   diskvars, ehist, engine_vars, alert_vars, plot_vars, fail_vars, video_vars, pause_vars, more_vars>>

\* line 863 / 1008: the while condition fails after 10 s; lines 872-874 /
\* 1017-1019 return through the finally clause
EnrollPollTimeout ==
    /\ epc = "poll"
    /\ e_outcome' = "timeout"
    /\ epc' = "cleanup"
    /\ UNCHANGED <<dictvars, tracker_dict_lock, wvars, e_kind, embedding,
                   diskvars, ehist, engine_vars, alert_vars, plot_vars, fail_vars, video_vars, pause_vars, more_vars>>

\* line 867 / 1012: obj.embedding is not None and np.linalg.norm(obj.embedding) > 0
IsNotNone(e) == e # "none"
Populated(e) == e # "none" /\ Norm(e) > 0

\* the lock during time.sleep(0.1), line 870 / 1015, which is outside the with block
LockHeldDuringSleep == "G"
LockDuringSleep == "free"

\* the embedding of the object the map holds under the special track ID
EmbeddingInDict ==
    CASE tracker_dict[SPECIAL_TRACK_ID] = "fake" -> fake_embedding
      [] tracker_dict[SPECIAL_TRACK_ID] = "live" -> live_embedding[SPECIAL_TRACK_ID]
      [] OTHER -> "none"

\* lines 864-869 / 1009-1014: one poll of the map under the lock
EnrollPollRead ==
    /\ epc = "poll_locked"
    /\ IF tracker_dict[SPECIAL_TRACK_ID] # "none" /\ Populated(EmbeddingInDict)
         THEN /\ embedding' = EmbeddingInDict
              /\ tracker_dict_lock' = "free"
              /\ epc' = "set_embedding"
         ELSE /\ tracker_dict_lock' = LockDuringSleep
              /\ epc' = "sleep"
              /\ UNCHANGED embedding
    /\ UNCHANGED <<dictvars, wvars, e_kind, e_outcome, diskvars, ehist,
                   engine_vars, alert_vars, plot_vars, fail_vars, video_vars, pause_vars, more_vars>>

\* line 870 / 1015: time.sleep(0.1)
EnrollSleep ==
    /\ epc = "sleep"
    /\ epc' = "poll"
    /\ UNCHANGED <<dictvars, tracker_dict_lock, wvars, e_kind, embedding, e_outcome,
                   diskvars, ehist, engine_vars, alert_vars, plot_vars, fail_vars, video_vars, pause_vars, more_vars>>

\* line 876 / 1021: fake_obj.embedding = embedding
EnrollSetEmbedding ==
    /\ epc = "set_embedding"
    /\ fake_embedding' = embedding
    /\ e_outcome' = "ok"
    /\ epc' = "cleanup"
    /\ UNCHANGED <<tracker_dict, live_embedding, tracker_dict_lock, wvars, e_kind,
                   embedding, diskvars, ehist, engine_vars, alert_vars, plot_vars, fail_vars, video_vars, pause_vars, more_vars>>

\* where the function goes after the finally clause: on to the save, or back
\* to the caller for the returns of lines 874 and 881 (1019 and 1026)
AfterCleanupAlwaysSaves(outcome) == "save"
AfterCleanup(outcome) == IF outcome = "ok" THEN "save" ELSE "return"

\* lines 882-886 / 1027-1031: the finally clause
EnrollCleanup ==
    /\ epc = "cleanup_locked"
    /\ tracker_dict' = [tracker_dict EXCEPT ![SPECIAL_TRACK_ID] = "none"]
    /\ deleted_live' = (deleted_live \/ tracker_dict[SPECIAL_TRACK_ID] = "live")
    /\ tracker_dict_lock' = "free"
    /\ epc' = AfterCleanup(e_outcome)
    /\ UNCHANGED <<live_embedding, fake_embedding, wvars, e_kind, embedding, e_outcome,
                   diskvars, n_enroll, e_dirs0, e_files0, e_gallery0, saved,
                   overwritten_live, engine_vars, alert_vars, plot_vars, fail_vars, video_vars, pause_vars, more_vars>>

\* lines 904-906 / 1041-1043: i = 0; while exists(f"{i}.jpg"): i += 1
AlwaysFirstIndex(files) == 0
NextImageIndex(files) ==
    CHOOSE i \in 0..Cardinality(files) : i \notin files /\ \A j \in 0..(i - 1) : j \in files

\* lines 907-912 / 1044-1050: cv2.imwrite(filename, ...) and
\* add_to_database(fake_obj.embedding, filename), which appends the embedding
\* to the profile the file's directory names
WriteReference(name) ==
    LET i == NextImageIndex(profile_files[name])
    IN /\ profile_files' = [profile_files EXCEPT ![name] = @ \cup {i}]
       /\ gallery' = [gallery EXCEPT ![name] = Append(@, fake_embedding)]
       /\ database' = database \cup {name}
       /\ saved' = Append(saved, [name |-> name, index |-> i,
                                  embedding |-> fake_embedding,
                                  existed |-> i \in profile_files[name]])

\* lines 889-912: sel is the directory selected in the database viewer ("" for
\* none, "ROOT" for the database directory itself), new the name add_profile
\* returns ("" when cancelled), made whether that profile's directory exists
EnrollSaveUpload(sel, new, made) ==
    /\ epc = "save" /\ e_kind = "upload"
    /\ LET name == IF sel # "" THEN sel
                   ELSE IF target_name # "" THEN target_name ELSE new
           dirs1 == IF sel # "" THEN profile_dirs
                    ELSE IF target_name # "" THEN profile_dirs \cup {target_name}
                    ELSE IF new # "" /\ made THEN profile_dirs \cup {new}
                    ELSE profile_dirs
       IN /\ profile_dirs' = dirs1
          /\ IF name \in dirs1
               THEN WriteReference(name)
               ELSE UNCHANGED <<profile_files, gallery, database, saved>>
    /\ epc' = "return"
    /\ UNCHANGED <<dictvars, tracker_dict_lock, wvars, e_kind, embedding, e_outcome,
                   n_enroll, e_dirs0, e_files0, e_gallery0, overwritten_live, deleted_live,
                   search_targets, alert_rest, engine_vars, plot_vars, fail_vars, video_vars, pause_vars, more_vars>>

\* lines 1034-1057: the profile directory of target_name is created if missing,
\* the image and the embedding are stored, update_search_targets()
EnrollSaveStartup ==
    /\ epc = "save" /\ e_kind = "startup"
    /\ profile_dirs' = profile_dirs \cup {target_name}
    /\ WriteReference(target_name)
    /\ search_targets' = SearchTargetsOf(target_name, database')
    /\ epc' = "return"
    /\ UNCHANGED <<dictvars, tracker_dict_lock, wvars, e_kind, embedding, e_outcome,
                   n_enroll, e_dirs0, e_files0, e_gallery0, overwritten_live, deleted_live,
                   alert_rest, engine_vars, plot_vars, fail_vars, video_vars, pause_vars, more_vars>>

\* back in the caller: process_uploaded_image lines 769-774 show the message
\* and call update_search_targets() whatever the enrollment did; line 958
\* follows with a print only
EnrollReturn ==
    /\ epc = "return"
    /\ epc' = "idle"
    /\ search_targets' = IF e_kind = "upload" THEN SearchTargetsOf(target_name, database)
                         ELSE search_targets
    /\ upload_message' = IF e_kind = "upload" THEN "Success" ELSE upload_message
    /\ targets_refreshed' = (e_kind = "upload")
    /\ UNCHANGED <<dictvars, tracker_dict_lock, wvars, e_kind, embedding, e_outcome,
                   diskvars, ehist, database, alert_rest, engine_vars, plot_vars, fail_vars,
                   video_vars, pause_vars, detect_vars, api_vars>>

NextEnroll ==
    \/ \E i \in LiveTrackIds : TrackerActivate(i)
    \/ \E i \in LiveTrackIds : TrackerRemove(i)
    \/ \E i \in LiveTrackIds : TrackerSubmit(i)
    \/ WorkerTake
    \/ WorkerWrite
    \/ \E kind \in {"upload", "startup"} : EnrollCall(kind, OneEnrollment)
    \/ EnrollAcquire
    \/ EnrollInsert
    \/ EnrollRecognizePut
    \/ EnrollRecognizePutRaises
    \/ EnrollPollTimeout
    \/ EnrollPollRead
    \/ EnrollSleep
    \/ EnrollSetEmbedding
    \/ EnrollCleanup
    \/ \E sel \in {"", "ROOT"} \cup profile_dirs, new \in {""} \cup EnrollNames,
          made \in BOOLEAN : EnrollSaveUpload(sel, new, made)
    \/ EnrollSaveStartup
    \/ EnrollReturn

InitEnrollSpec ==
    InitEngine /\ InitEnroll /\ InitEnrollAlert /\ InitPlotIdle
    /\ InitFailIdle /\ InitVideoIdle /\ InitPauseIdle /\ InitMoreIdle

SpecEnroll == InitEnrollSpec /\ [][NextEnroll]_vars

\* two enrollments one after the other, with no live track
NextEnrollTwice ==
    \/ WorkerTake
    \/ WorkerWrite
    \/ \E kind \in {"upload", "startup"} : EnrollCall(kind, MaxEnrollments)
    \/ EnrollAcquire
    \/ EnrollInsert
    \/ EnrollRecognizePut
    \/ EnrollRecognizePutRaises
    \/ EnrollPollTimeout
    \/ EnrollPollRead
    \/ EnrollSleep
    \/ EnrollSetEmbedding
    \/ EnrollCleanup
    \/ \E sel \in {"", "ROOT"} \cup profile_dirs, new \in {""} \cup EnrollNames,
          made \in BOOLEAN : EnrollSaveUpload(sel, new, made)
    \/ EnrollSaveStartup
    \/ EnrollReturn

InitEnrollTwice ==
    InitEngine /\ InitEnroll /\ InitEnrollAlert /\ InitPlotIdle
    /\ InitFailIdle /\ InitVideoIdle /\ InitPauseIdle /\ InitMoreIdle

SpecEnrollTwice == InitEnrollTwice /\ [][NextEnrollTwice]_vars


(***************************************************************************)
(* update_classes when one of its steps raises: nothing in update_classes  *)
(* or connect_accl catches, so the call ends there and the exception       *)
(* reaches the caller, who may call update_classes again.                  *)
(***************************************************************************)
\* lines 285-313 and 188-198: set_classes, setup_predictor, export, the
\* compiler or AsyncAccl raises, before connect_accl reaches line 200; one call
\* raises, the calls after it do not
UpdateRaises(t) ==
    /\ ~update_raised
    /\ uop[t] = "update"
    /\ upc[t] \in {"r_pred", "r_classes", "c_accl"}
    /\ upc' = [upc EXCEPT ![t] = "idle"]
    /\ update_raised' = TRUE
    /\ UNCHANGED <<qvars, outstanding_frames, stopped, stop_lock, cfgvars, flagvars,
                   accl, accl_model, chip, uop, ucls, ureg, pvars, gvars, svars, kvars,
                   puthist, rethist, reconfhist, stophist, alert_vars, plot_vars,
                   enroll_vars, retried, video_vars, pause_vars, more_vars>>

\* the caller calls update_classes(cls) on the same instance after a call that
\* raised (text-search.py line 97)
CtlRetry(t, cls) ==
    /\ update_raised
    /\ upc[t] = "idle"
    /\ accl < MaxReconf
    /\ upc' = [upc EXCEPT ![t] = "s_check"]
    /\ uop' = [uop EXCEPT ![t] = "update"]
    /\ ucls' = [ucls EXCEPT ![t] = cls]
    /\ retried' = TRUE
    /\ UNCHANGED <<qvars, outstanding_frames, stopped, stop_lock, cfgvars, flagvars,
                   accl, accl_model, chip, ureg, pvars, gvars, svars, kvars,
                   puthist, rethist, reconfhist, stophist, alert_vars, plot_vars,
                   enroll_vars, update_raised, video_vars, pause_vars, more_vars>>

\* the first update_classes call of the controlling thread
CtlFirstUpdate(t, cls) == ~update_raised /\ CtlCall(t, "update", cls)

NextReconfFail ==
    \/ PutCall(DefaultFlags, TRUE)
    \/ PutEnqueue
    \/ PutRead
    \/ PutWrite
    \/ GetCall
    \/ GetTake
    \/ GetTimeout
    \/ GetRead
    \/ GetWrite
    \/ \E e \in Accls : SrcGet(e)
    \/ \E e \in Accls : SrcMiddlePut(e)
    \/ \E e \in Accls : SrcReturn(e)
    \/ \E e \in Accls : SinkGet(e)
    \/ \E e \in Accls : SinkPostprocess(e)
    \/ \E e \in Accls : SinkPlot(e, FALSE)
    \/ \E e \in Accls : SinkPut(e)
    \/ \E t \in MainThread, cls \in ClassSets : CtlFirstUpdate(t, cls)
    \/ \E t \in MainThread, cls \in ClassSets : CtlRetry(t, cls)
    \/ \E t \in MainThread : UpdateRaises(t)
    \/ \E t \in MainThread : StopCheck(t)
    \/ \E t \in MainThread : StopLock(t)
    \/ \E t \in MainThread : StopLoop(t)
    \/ \E t \in MainThread : StopGetTake(t)
    \/ \E t \in MainThread : StopGetTimeout(t)
    \/ \E t \in MainThread : StopGetRead(t)
    \/ \E t \in MainThread : StopGetWrite(t)
    \/ \E t \in MainThread : StopSentinel(t)
    \/ \E t \in MainThread : StopSet(t)
    \/ \E t \in MainThread : RebuildPredictor(t)
    \/ \E t \in MainThread : RebuildClasses(t)
    \/ \E t \in MainThread : ConnectAccl(t)
    \/ \E t \in MainThread : ConnectResume(t)

InitReconfFail == InitEngine /\ InitAlertIdle /\ InitPlotIdle /\ InitOtherIdle

SpecReconfFail == InitReconfFail /\ [][NextReconfFail]_vars


(***************************************************************************)
(* Pause of the capture thread (img-search.py): the GUI thread handles the *)
(* clicks on the viewer and the ticks of fps_timer; the capture thread     *)
(* produces frames while it is not paused.                                 *)
(***************************************************************************)
pausehist == <<n_draws, n_toggles, n_captured, n_polls>>

\* CaptureThread.toggle_play(): the pause flag flips
TogglePlay(pause) == ~pause

\* line 487: self.compositor.set_paused(self.capture_thread.pause)
StalePausedFlag(pause) == ~pause
PausedFlagAfter(pause) == pause

\* toggle_capture_pause, lines 478-490, with update_status_display
ToggleCapturePause(pos) ==
    /\ stages_running = Stages
    /\ n_toggles < MaxToggles
    /\ n_toggles' = n_toggles + 1
    /\ IF pos = "none"
         THEN UNCHANGED <<capture_pause, compositor_paused>>
         ELSE /\ capture_pause' = TogglePlay(capture_pause)
              /\ compositor_paused' = PausedFlagAfter(capture_pause')
    /\ UNCHANGED <<current_frame, last_draw, stages_running, n_draws, n_captured, n_polls,
                   engine_vars, alert_vars, plot_vars, enroll_vars, fail_vars, video_vars, more_vars>>

\* the frame poll_framerates hands to compositor.draw, line 1063:
\* np.copy(self.tracker.current_frame.image)
DrawnFrame(f) == [frame |-> f, copy |-> TRUE]

\* poll_framerates, lines 1059-1064, on a tick of fps_timer (lines 158-161)
PollFramerates ==
    /\ stages_running = Stages
    /\ n_polls < MaxPolls
    /\ n_polls' = n_polls + 1
    /\ IF capture_pause /\ current_frame # 0
         THEN /\ last_draw' = DrawnFrame(current_frame)
              /\ n_draws' = n_draws + 1
         ELSE UNCHANGED <<last_draw, n_draws>>
    /\ UNCHANGED <<capture_pause, compositor_paused, current_frame, stages_running,
                   n_toggles, n_captured,
                   engine_vars, alert_vars, plot_vars, enroll_vars, fail_vars, video_vars, more_vars>>

\* the capture thread emits a frame while it is not paused, and the tracker
\* makes it its current_frame
CaptureFrame ==
    /\ "capture" \in stages_running
    /\ ~capture_pause
    /\ n_captured < MaxCaptured
    /\ n_captured' = n_captured + 1
    /\ current_frame' = n_captured + 1
    /\ UNCHANGED <<capture_pause, compositor_paused, last_draw, stages_running,
                   n_draws, n_toggles, n_polls,
                   engine_vars, alert_vars, plot_vars, enroll_vars, fail_vars, video_vars, more_vars>>

\* closeEvent, lines 1066-1075: the capture thread, the tracker and fps_timer
\* are stopped
CloseEvent ==
    /\ stages_running = Stages
    /\ stages_running' = {}
    /\ UNCHANGED <<capture_pause, compositor_paused, current_frame, last_draw, pausehist,
                   engine_vars, alert_vars, plot_vars, enroll_vars, fail_vars, video_vars, more_vars>>

NextPause ==
    \/ \E pos \in {"none", "click"} : ToggleCapturePause(pos)
    \/ PollFramerates
    \/ CaptureFrame
    \/ CloseEvent

InitPauseSpec ==
    InitEngine /\ InitAlertIdle /\ InitPlotIdle
    /\ InitEnrollIdle /\ InitFailIdle /\ InitVideoIdle /\ InitPauseIdle /\ InitMoreIdle

SpecPause == InitPauseSpec /\ [][NextPause]_vars


(***************************************************************************)
(* process_video (text-search.py): one thread reads a frame, calls         *)
(* put(frame_data), then get(timeout=1.0), and goes on to the next frame   *)
(* whether get returned a result or raised queue.Empty.                    *)
(***************************************************************************)
\* lines 137-155: cap.read() delivers a frame; put (YoloE.py lines 222-225)
\* takes _stop_lock and finds the engine running
VideoPutCall ==
    /\ vpc = "v_loop"
    /\ v_puts < MaxVideoFrames
    /\ stop_lock = "free" /\ ~stopped
    /\ stop_lock' = "V"
    /\ v_puts' = v_puts + 1
    /\ put_calls' = put_calls + 1
    /\ vpc' = "v_enqueue"
    /\ UNCHANGED <<qvars, outstanding_frames, stopped, cfgvars, flagvars, accl, accl_model,
                   chip, pvars, gvars, uvars, svars, kvars, accepted, put_outcome,
                   rethist, reconfhist, stophist, alert_vars, plot_vars,
                   enroll_vars, fail_vars, v_timeouts, pause_vars, more_vars>>

\* YoloE.py lines 227-228: input_q.put(data, True, None) finds room, the counter
\* is incremented, the with block releases _stop_lock
VideoPutEnqueue ==
    /\ vpc = "v_enqueue"
    /\ QueueHasRoom(input_q, INPUT_Q_MAXSIZE)
    /\ input_q' = Append(input_q, Framedata(accepted + 1, DefaultFlags, n_drained))
    /\ accepted' = accepted + 1
    /\ put_outcome' = "accepted"
    /\ outstanding_frames' = outstanding_frames + 1
    /\ stop_lock' = "free"
    /\ vpc' = "v_get"
    /\ UNCHANGED <<middle_q, output_q, stopped, cfgvars, flagvars, accl, accl_model,
                   chip, pvars, gvars, uvars, svars, kvars, put_calls,
                   rethist, reconfhist, stophist, alert_vars, plot_vars,
                   enroll_vars, fail_vars, v_puts, v_timeouts, pause_vars, more_vars>>

\* line 158 -> YoloE.py lines 266-269: get(timeout=1.0) returns a result
VideoGetTake ==
    /\ vpc = "v_get"
    /\ output_q # <<>>
    /\ last_ret' = [Head(output_q) EXCEPT !.gstart = n_reconf]
    /\ nret' = nret + 1
    /\ output_q' = Tail(output_q)
    /\ outstanding_frames' = outstanding_frames - 1
    /\ vpc' = "v_loop"
    /\ UNCHANGED <<input_q, middle_q, stopped, stop_lock, cfgvars, flagvars, accl,
                   accl_model, chip, pvars, gvars, uvars, svars, kvars, puthist,
                   reconfhist, stophist, alert_vars, plot_vars,
                   enroll_vars, fail_vars, v_puts, v_timeouts, pause_vars, more_vars>>

\* YoloE.py line 267: output_q.get(block, timeout) raises queue.Empty when the
\* queue stayed empty for the timeout
GetAlwaysTimesOut(q) == TRUE
GetTimesOut(q) == q = <<>>

\* lines 158 and 182-184: output_q stays empty for 1 s, get raises queue.Empty,
\* the except clause prints and continues with the next frame
VideoGetTimeout ==
    /\ vpc = "v_get"
    /\ GetTimesOut(output_q)
    /\ v_timeouts' = v_timeouts + 1
    /\ vpc' = "v_loop"
    /\ UNCHANGED <<engine_vars, alert_vars, plot_vars, enroll_vars, fail_vars, v_puts,
                   pause_vars, more_vars>>

\* the accelerator's callbacks
PipelineStep ==
    \/ SrcGet(0)
    \/ SrcMiddlePut(0)
    \/ SrcReturn(0)
    \/ SinkGet(0)
    \/ SinkPostprocess(0)
    \/ SinkPlot(0, FALSE)
    \/ SinkPut(0)

NextVideo ==
    \/ VideoPutCall
    \/ VideoPutEnqueue
    \/ VideoGetTake
    \/ VideoGetTimeout
    \/ SrcGet(0)
    \/ SrcMiddlePut(0)
    \/ SrcReturn(0)
    \/ SinkGet(0)
    \/ SinkPostprocess(0)
    \/ SinkPlot(0, FALSE)
    \/ SinkPut(0)

\* process_video starts its loop on a running engine
InitVideo == vpc = "v_loop" /\ v_puts = 0 /\ v_timeouts = 0

InitVideoSpec ==
    InitEngine /\ InitAlertIdle /\ InitPlotIdle
    /\ InitEnrollIdle /\ InitFailIdle /\ InitVideo /\ InitPauseIdle /\ InitMoreIdle

SpecVideo == InitVideoSpec /\ [][NextVideo]_vars

\* the same with every runnable thread scheduled: the accelerator's callback
\* threads take their steps, and a put that has room completes
SpecVideoFair ==
    InitVideoSpec /\ [][NextVideo]_vars
    /\ WF_vars(PipelineStep) /\ WF_vars(VideoPutEnqueue)


(***************************************************************************)
(* Detection of the faces of an uploaded image (img-search.py, lines       *)
(* 780-820).  The face detector (self.tracker.mxface), the tracker's       *)
(* detect slot and its detection thread are the stages of section 5 of the *)
(* specification: bounded FIFO queues between the stages, one consuming    *)
(* thread that receives with a timeout.                                    *)
(***************************************************************************)
\* depth of the detector's queues
DETECT_Q_DEPTH == 2

dethist == <<thread_took_upload, n_live, n_uploads>>

\* the images submitted to the detector, and the results it gives for them:
\* live frames, and the image of the n-th call of detect_faces_in_image
LiveFrame == [kind |-> "live", n |-> 0]
UploadedImage(n) == [kind |-> "upload", n |-> n]
NoDetection == [kind |-> "none", n |-> 0]
\* no result within the 5 s of detect_put or detect_get
DetectionTimeout == [kind |-> "timeout", n |-> 0]

\* line 129: capture_thread.frame_ready -> tracker.detect, which submits the
\* live frame; the slot runs on the main thread's event loop, so not while
\* detect_faces_in_image is running there
TrackerDetect ==
    /\ fpc = "idle"
    /\ n_live < MaxLive
    /\ Len(mx_in) < DETECT_Q_DEPTH
    /\ mx_in' = Append(mx_in, LiveFrame)
    /\ n_live' = n_live + 1
    /\ UNCHANGED <<stop_threads, mx_out, dtpc, fpc, f_result, thread_took_upload, n_uploads,
                   engine_vars, alert_vars, plot_vars, enroll_vars, fail_vars, video_vars,
                   pause_vars, report_vars, api_vars>>

\* the detector turns its oldest image into a result
MxDetect ==
    /\ mx_in # <<>>
    /\ Len(mx_out) < DETECT_Q_DEPTH
    /\ mx_out' = Append(mx_out, Head(mx_in))
    /\ mx_in' = Tail(mx_in)
    /\ UNCHANGED <<stop_threads, dtpc, fpc, f_result, dethist,
                   engine_vars, alert_vars, plot_vars, enroll_vars, fail_vars, video_vars,
                   pause_vars, report_vars, api_vars>>

\* the detection thread tests stop_threads once per iteration and leaves its
\* loop when it is set
DetectionThreadCheck ==
    /\ dtpc = "top"
    /\ dtpc' = IF stop_threads THEN "stopped" ELSE "get"
    /\ UNCHANGED <<stop_threads, mx_in, mx_out, fpc, f_result, dethist,
                   engine_vars, alert_vars, plot_vars, enroll_vars, fail_vars, video_vars,
                   pause_vars, report_vars, api_vars>>

\* the detection thread receives a result and hands it to the tracker
DetectionThreadTake ==
    /\ dtpc = "get"
    /\ mx_out # <<>>
    /\ mx_out' = Tail(mx_out)
    /\ thread_took_upload' =
          (thread_took_upload \/ (fpc = "f_get" /\ Head(mx_out) = UploadedImage(n_uploads + 1)))
    /\ dtpc' = "top"
    /\ UNCHANGED <<stop_threads, mx_in, fpc, f_result, n_live, n_uploads,
                   engine_vars, alert_vars, plot_vars, enroll_vars, fail_vars, video_vars,
                   pause_vars, report_vars, api_vars>>

\* the detection thread's receive times out
DetectionThreadTimeout ==
    /\ dtpc = "get"
    /\ mx_out = <<>>
    /\ dtpc' = "top"
    /\ UNCHANGED <<stop_threads, mx_in, mx_out, fpc, f_result, dethist,
                   engine_vars, alert_vars, plot_vars, enroll_vars, fail_vars, video_vars,
                   pause_vars, report_vars, api_vars>>

\* process_uploaded_image line 752 -> detect_faces_in_image line 785:
\* self.tracker.detection_thread.stop_threads = True
DetectFacesCall ==
    /\ fpc = "idle"
    /\ n_uploads < MaxUploads
    /\ stop_threads' = TRUE
    /\ fpc' = "f_sleep"
    /\ f_result' = NoDetection
    /\ UNCHANGED <<mx_in, mx_out, dtpc, dethist,
                   engine_vars, alert_vars, plot_vars, enroll_vars, fail_vars, video_vars,
                   pause_vars, report_vars, api_vars>>

\* line 789: time.sleep(0.1), "wait a moment for the thread to stop
\* processing": the sleep is taken to be long enough for the detection thread
\* to have left its loop
DetectFacesSleep ==
    /\ fpc = "f_sleep"
    /\ dtpc = "stopped"
    /\ fpc' = "f_put"
    /\ UNCHANGED <<stop_threads, mx_in, mx_out, dtpc, f_result, dethist,
                   engine_vars, alert_vars, plot_vars, enroll_vars, fail_vars, video_vars,
                   pause_vars, report_vars, api_vars>>

\* line 792: self.tracker.mxface.detect_put(image, block=True, timeout=5.0)
DetectFacesPut ==
    /\ fpc = "f_put"
    /\ Len(mx_in) < DETECT_Q_DEPTH
    /\ mx_in' = Append(mx_in, UploadedImage(n_uploads + 1))
    /\ fpc' = "f_get"
    /\ UNCHANGED <<stop_threads, mx_out, dtpc, f_result, dethist,
                   engine_vars, alert_vars, plot_vars, enroll_vars, fail_vars, video_vars,
                   pause_vars, report_vars, api_vars>>

\* line 792: the detector stays full for 5 s; queue.Full leaves the try block
DetectFacesPutFull ==
    /\ fpc = "f_put"
    /\ Len(mx_in) = DETECT_Q_DEPTH
    /\ f_result' = DetectionTimeout
    /\ fpc' = "f_finally"
    /\ UNCHANGED <<stop_threads, mx_in, mx_out, dtpc, dethist,
                   engine_vars, alert_vars, plot_vars, enroll_vars, fail_vars, video_vars,
                   pause_vars, report_vars, api_vars>>

\* line 796: result_frame = self.tracker.mxface.detect_get(block=True, timeout=5.0)
DetectFacesGetTake ==
    /\ fpc = "f_get"
    /\ mx_out # <<>>
    /\ f_result' = Head(mx_out)
    /\ mx_out' = Tail(mx_out)
    /\ fpc' = "f_finally"
    /\ UNCHANGED <<stop_threads, mx_in, dtpc, dethist,
                   engine_vars, alert_vars, plot_vars, enroll_vars, fail_vars, video_vars,
                   pause_vars, report_vars, api_vars>>

\* lines 798-800: except queue.Empty: return []
DetectFacesGetTimeout ==
    /\ fpc = "f_get"
    /\ mx_out = <<>>
    /\ f_result' = DetectionTimeout
    /\ fpc' = "f_finally"
    /\ UNCHANGED <<stop_threads, mx_in, mx_out, dtpc, dethist,
                   engine_vars, alert_vars, plot_vars, enroll_vars, fail_vars, video_vars,
                   pause_vars, report_vars, api_vars>>

\* lines 816-820, finally: stop_threads = False, and the detection thread is
\* started again when it is not running
DetectFacesFinally ==
    /\ fpc = "f_finally"
    /\ stop_threads' = FALSE
    /\ dtpc' = IF dtpc = "stopped" THEN "top" ELSE dtpc
    /\ fpc' = "idle"
    /\ n_uploads' = n_uploads + 1
    /\ UNCHANGED <<mx_in, mx_out, f_result, thread_took_upload, n_live,
                   engine_vars, alert_vars, plot_vars, enroll_vars, fail_vars, video_vars,
                   pause_vars, report_vars, api_vars>>

NextDetect ==
    \/ TrackerDetect
    \/ MxDetect
    \/ DetectionThreadCheck
    \/ DetectionThreadTake
    \/ DetectionThreadTimeout
    \/ DetectFacesCall
    \/ DetectFacesSleep
    \/ DetectFacesPut
    \/ DetectFacesPutFull
    \/ DetectFacesGetTake
    \/ DetectFacesGetTimeout
    \/ DetectFacesFinally

\* the monitoring window is up: the detection thread runs and the main thread
\* is in its event loop
InitDetect ==
    /\ stop_threads = FALSE
    /\ mx_in = <<>> /\ mx_out = <<>>
    /\ dtpc = "top"
    /\ fpc = "idle" /\ f_result = NoDetection
    /\ thread_took_upload = FALSE /\ n_live = 0 /\ n_uploads = 0

InitDetectSpec ==
    InitEngine /\ InitAlertIdle /\ InitPlotIdle
    /\ InitEnrollIdle /\ InitFailIdle /\ InitVideoIdle /\ InitPauseIdle /\ InitDetect
    /\ InitReportIdle /\ InitApiIdle

SpecDetect == InitDetectSpec /\ [][NextDetect]_vars

(***************************************************************************)
(* The watched list of the movie tracker's API (backend/main.py).  The     *)
(* POST handler is a coroutine of the event loop: between two awaits it    *)
(* runs without another coroutine in between.  The DELETE and the stats    *)
(* handler are plain functions, which the framework runs on a worker       *)
(* thread beside the event loop, so each of their accesses to the global   *)
(* watched_movies is a step of its own.  A movie id is the sequence of its *)
(* parts, "omdb_" being one part.                                          *)
(***************************************************************************)
MovieIds == {<<"omdb_", "tt1">>, <<"omdb_", "tt2">>, <<"omdb_", "omdb_", "tt1">>, <<"tt1">>}

\* the Runtime strings of OMDb: "N/A", "90 min", "120 min"; a part is a number
\* for a run of digits and -1 for other text
Runtimes == {<<-1>>, <<90, -1>>, <<120, -1>>}

\* parse_runtime, lines 90-99: 0 for "" and "N/A", else the first run of digits
RECURSIVE FirstNumber(_)
FirstNumber(runtime_str) ==
    IF runtime_str = <<>> THEN 0
    ELSE IF Head(runtime_str) >= 0 THEN Head(runtime_str)
    ELSE FirstNumber(Tail(runtime_str))

parse_runtime(runtime_str) ==
    IF runtime_str = <<>> \/ runtime_str = <<-1>> THEN 0 ELSE FirstNumber(runtime_str)

\* line 214: movie_id.startswith("omdb_")
StartsWithOmdb(movie_id) == movie_id # <<>> /\ Head(movie_id) = "omdb_"

\* line 221: movie_id.replace("omdb_", "") removes every occurrence
IsNotOmdbPart(part) == part # "omdb_"
ImdbIdOf(movie_id) == SelectSeq(movie_id, IsNotOmdbPart)

\* lines 241-244: the entry that makes a movie a duplicate
SameMovieId(entry, movie_id) == entry.id = movie_id
SameImdbId(entry, movie_id) == entry.imdb_id = ImdbIdOf(movie_id)

AlreadyWatched(movie_id) ==
    \E i \in DOMAIN watched_movies : SameImdbId(watched_movies[i], movie_id)

postvars == <<post_pc, post_id, post_resp, post_found, post_present, overlapped>>
delvars == <<del_pc, del_id, del_len, del_list, del_resp, del_changed, del_raced>>
statsvars == <<stats_pc, stats_minutes, stats_resp>>
not_api == <<engine_vars, alert_vars, plot_vars, enroll_vars, fail_vars, video_vars,
             pause_vars, detect_vars, report_vars>>

\* the event loop runs one coroutine at a time: no POST is between its
\* duplicate check and its append
LoopFree == \A r \in PostRequests : post_pc[r] # "append"

\* lines 202-222: the checks of the key and of the id, up to
\* 'await get_movie_details(imdb_id)'
PostCall(r, movie_id) ==
    /\ post_pc[r] = "idle" /\ LoopFree
    /\ n_requests < MaxRequests
    /\ n_requests' = n_requests + 1
    /\ post_id' = [post_id EXCEPT ![r] = movie_id]
    /\ post_found' = [post_found EXCEPT ![r] = FALSE]
    /\ post_present' = [post_present EXCEPT ![r] = FALSE]
    /\ IF ~OMDB_API_KEY
         THEN /\ post_resp' = [post_resp EXCEPT ![r] = 500]
              /\ UNCHANGED <<post_pc, overlapped>>
         ELSE IF ~StartsWithOmdb(movie_id)
         THEN /\ post_resp' = [post_resp EXCEPT ![r] = 400]
              /\ UNCHANGED <<post_pc, overlapped>>
         ELSE /\ post_resp' = [post_resp EXCEPT ![r] = 0]
              /\ post_pc' = [post_pc EXCEPT ![r] = "await"]
              /\ overlapped' =
                    (overlapped \/ \E q \in PostRequests \ {r} :
                                      /\ post_pc[q] = "await"
                                      /\ ImdbIdOf(post_id[q]) = ImdbIdOf(movie_id))
    /\ UNCHANGED <<OMDB_API_KEY, watched_movies, delvars, statsvars, list_changed, not_api>>

\* lines 222-250 and 259-260: the lookup returns; Response is "True" or not;
\* the duplicate check
PostResume(r, found) ==
    /\ post_pc[r] = "await" /\ LoopFree
    /\ post_found' = [post_found EXCEPT ![r] = found]
    /\ post_present' = [post_present EXCEPT ![r] = AlreadyWatched(post_id[r])]
    /\ IF ~found
         THEN /\ post_resp' = [post_resp EXCEPT ![r] = 404]
              /\ post_pc' = [post_pc EXCEPT ![r] = "idle"]
         ELSE IF AlreadyWatched(post_id[r])
         THEN /\ post_resp' = [post_resp EXCEPT ![r] = 409]
              /\ post_pc' = [post_pc EXCEPT ![r] = "idle"]
         ELSE /\ post_pc' = [post_pc EXCEPT ![r] = "append"]
              /\ UNCHANGED post_resp
    /\ UNCHANGED <<OMDB_API_KEY, watched_movies, post_id, overlapped, delvars, statsvars,
                   list_changed, n_requests, not_api>>

\* lines 225-238 and 252-258: the entry is built from the details and appended
\* to the list the global names at that moment
PostAppend(r, runtime) ==
    /\ post_pc[r] = "append"
    /\ watched_movies' = Append(watched_movies,
                                [id |-> post_id[r], imdb_id |-> ImdbIdOf(post_id[r]),
                                 duration |-> parse_runtime(runtime)])
    /\ post_resp' = [post_resp EXCEPT ![r] = 200]
    /\ post_pc' = [post_pc EXCEPT ![r] = "idle"]
    /\ list_changed' = TRUE
    /\ del_raced' = (del_raced \/ del_pc \in {"filtered", "stored"})
    /\ UNCHANGED <<OMDB_API_KEY, post_id, post_found, post_present, overlapped,
                   del_pc, del_id, del_len, del_list, del_resp, del_changed,
                   statsvars, n_requests, not_api>>

\* line 285: the entries whose movie id differs from movie_id, in their order
IsOtherMovie(entry, movie_id) == entry.id # movie_id
RECURSIVE Others(_, _)
Others(entries, movie_id) ==
    IF entries = <<>> THEN <<>>
    ELSE IF IsOtherMovie(Head(entries), movie_id)
           THEN <<Head(entries)>> \o Others(Tail(entries), movie_id)
           ELSE Others(Tail(entries), movie_id)

\* lines 284-285: initial_length and the list comprehension
DeleteCall(movie_id) ==
    /\ del_pc \in {"idle", "done"}
    /\ n_requests < MaxRequests
    /\ n_requests' = n_requests + 1
    /\ del_id' = movie_id
    /\ del_len' = Len(watched_movies)
    /\ del_list' = Others(watched_movies, movie_id)
    /\ del_resp' = 0
    /\ del_changed' = FALSE /\ del_raced' = FALSE
    /\ del_pc' = "filtered"
    /\ UNCHANGED <<OMDB_API_KEY, watched_movies, postvars, statsvars, list_changed, not_api>>

\* line 285: the global is bound to the new list
DeleteStore ==
    /\ del_pc = "filtered"
    /\ watched_movies' = del_list
    /\ list_changed' = (list_changed \/ del_list # watched_movies)
    /\ del_changed' = (del_list # watched_movies)
    /\ del_pc' = "stored"
    /\ UNCHANGED <<OMDB_API_KEY, del_id, del_len, del_list, del_resp, del_raced, postvars, statsvars,
                   n_requests, not_api>>

\* lines 287-289: success when the list is shorter than before, else 404
DeleteRespond ==
    /\ del_pc = "stored"
    /\ del_resp' = IF Len(watched_movies) < del_len THEN 200 ELSE 404
    /\ del_pc' = "done"
    /\ UNCHANGED <<OMDB_API_KEY, watched_movies, del_id, del_len, del_list, del_changed, del_raced, postvars,
                   statsvars, list_changed, n_requests, not_api>>

\* line 270: sum(entry["movie"]["duration"] for entry in watched_movies)
TotalOfFirst(entries) == IF entries = <<>> THEN 0 ELSE Head(entries).duration
RECURSIVE TotalMinutes(_)
TotalMinutes(entries) ==
    IF entries = <<>> THEN 0 ELSE Head(entries).duration + TotalMinutes(Tail(entries))

\* line 270
StatsCall ==
    /\ stats_pc \in {"idle", "done"}
    /\ n_requests < MaxRequests
    /\ n_requests' = n_requests + 1
    /\ stats_minutes' = TotalMinutes(watched_movies)
    /\ stats_pc' = "summed"
    /\ list_changed' = FALSE
    /\ UNCHANGED <<OMDB_API_KEY, watched_movies, postvars, delvars, stats_resp, not_api>>

\* lines 271-278: total_count = len(watched_movies) and the answer
StatsReturn ==
    /\ stats_pc = "summed"
    /\ stats_resp' = [total_minutes |-> stats_minutes, total_count |-> Len(watched_movies)]
    /\ stats_pc' = "done"
    /\ UNCHANGED <<OMDB_API_KEY, watched_movies, postvars, delvars, stats_minutes,
                   list_changed, n_requests, not_api>>

NextApi ==
    \/ \E r \in PostRequests, movie_id \in MovieIds : PostCall(r, movie_id)
    \/ \E r \in PostRequests, found \in BOOLEAN : PostResume(r, found)
    \/ \E r \in PostRequests, runtime \in Runtimes : PostAppend(r, runtime)
    \/ \E movie_id \in MovieIds : DeleteCall(movie_id)
    \/ DeleteStore
    \/ DeleteRespond
    \/ StatsCall
    \/ StatsReturn

\* lines 17 and 32: the key comes from the environment, the list starts empty
InitApi ==
    /\ OMDB_API_KEY \in BOOLEAN
    /\ watched_movies = <<>>
    /\ post_pc = [r \in PostRequests |-> "idle"]
    /\ post_id = [r \in PostRequests |-> <<>>]
    /\ post_resp = [r \in PostRequests |-> 0]
    /\ post_found = [r \in PostRequests |-> FALSE]
    /\ post_present = [r \in PostRequests |-> FALSE]
    /\ overlapped = FALSE
    /\ del_pc = "idle" /\ del_id = <<>> /\ del_len = 0 /\ del_list = <<>> /\ del_resp = 0
    /\ del_changed = FALSE /\ del_raced = FALSE
    /\ stats_pc = "idle" /\ stats_minutes = 0
    /\ stats_resp = [total_minutes |-> 0, total_count |-> 0]
    /\ list_changed = FALSE /\ n_requests = 0

InitApiSpec ==
    InitEngine /\ InitAlertIdle /\ InitPlotIdle
    /\ InitEnrollIdle /\ InitFailIdle /\ InitVideoIdle /\ InitPauseIdle
    /\ InitDetectIdle /\ InitReportIdle /\ InitApi

SpecApi == InitApiSpec /\ [][NextApi]_vars

(***************************************************************************)
(* Properties.                                                             *)
(***************************************************************************)
CtlIn(states) == \E t \in Ctls : upc[t] \in states

\* no frame is in input_q, middle_q, an accelerator (its callbacks included) or
\* output_q
PipelineEmpty ==
    /\ \A i \in DOMAIN input_q : input_q[i] = NoneData
    /\ middle_q = <<>>
    /\ output_q = <<>>
    /\ \A e \in Accls : /\ chip[e] = <<>>
                        /\ spc[e] \notin {"got", "ret"}
                        /\ kpc[e] \notin {"post", "plot", "put"}

\* C1: a result returned by a get that was called after n calls of update_classes
\* had returned comes from a frame that put accepted after the drain of the n-th
\* call had finished.
C1_NoStaleResultAfterReconfigure ==
    nret > 0 => last_ret.gen >= last_ret.gstart

\* C2: every result is made with the predictor, the selected classes and the
\* accelerator model of one class list, and no frame is in the pipeline while
\* update_classes replaces the predictor, the class list or the accelerator.
C2_SingleClassConfiguration ==
    /\ nret > 0 => (last_ret.pred = last_ret.sel /\ last_ret.sel = last_ret.model)
    /\ CtlIn({"r_pred", "r_classes", "c_accl"}) => PipelineEmpty

\* C3: input_q holds at most 1 item, middle_q at most 2, output_q at most 1.
C3_QueuesWithinCapacity ==
    /\ Len(input_q) <= 1
    /\ Len(middle_q) <= 2
    /\ Len(output_q) <= 1

\* C3 witness: puts outrun the consumer: middle_q is full and the input callback
\* is parked on it with a further frame.
C3_Witness ==
    /\ Len(middle_q) = 2
    /\ \E e \in Accls : spc[e] = "got"
    /\ put_calls = MaxPuts

\* C4: _outstanding_frames is never negative, and whenever no put and no get is
\* under way it equals the number of frames accepted minus the number of results
\* returned.
C4_OutstandingIsAcceptedMinusReturned ==
    /\ outstanding_frames >= 0
    /\ (ppc = "idle" /\ gpc \in {"idle", "g_wait", "g_park"} /\ ~CtlIn({"s_gread", "s_gwrite"}))
         => outstanding_frames = accepted - nret

\* C5: the k-th result returned is made from the k-th accepted frame, and the
\* orig_frame _data_sink takes from middle_q is the frame whose model output it
\* post-processes.
C5_ResultsInSubmissionOrder ==
    /\ nret > 0 => last_ret.frame = nret
    /\ \A e \in Accls : kpc[e] \in {"post", "plot", "put"} => korig[e].id = kout[e].id

\* the results _data_sink has built: queued, or about to be queued
BuiltResults ==
    {output_q[i] : i \in DOMAIN output_q} \cup {kres[e] : e \in {a \in Accls : kpc[a] = "put"}}

\* frames accepted and not yet returned, counted where they are
FramesInPipeline ==
    Len(input_q) + Len(middle_q) + Len(output_q)
    + Cardinality({e \in Accls : spc[e] = "got"})
    + Cardinality({e \in Accls : kpc[e] \in {"post", "plot", "put", "crashed"}})

\* C6: a frame whose rendering raised yields one AnnotatedFrame carrying the
\* unmodified orig_frame, no frame's result is lost, and the output callback
\* goes on to serve the next frame.
C6_RenderErrorFallsBackToOriginal ==
    /\ \A r \in BuiltResults : r.raised => (r.image = "orig" /\ r.frame = r.out_of)
    /\ \A e \in Accls : kpc[e] # "crashed"
    /\ accepted = nret + FramesInPipeline

\* C6 witness: the result of a frame whose rendering raised has been returned and
\* the result of the frame submitted after it is ready on output_q.
C6_Witness ==
    /\ nret > 0 /\ last_ret.raised /\ last_ret.image = "orig"
    /\ output_q # <<>> /\ Head(output_q).frame = last_ret.frame + 1

\* C7: a Framedata with rm_background and do_blur both true is refused when it is
\* submitted; no image is delivered for it.
C7_BothModesRejected ==
    /\ nret > 0 => ~(last_ret.req_rm /\ last_ret.req_blur)
    /\ \A r \in BuiltResults : ~(r.req_rm /\ r.req_blur)
    /\ \A i \in DOMAIN input_q : ~(input_q[i].rm_background /\ input_q[i].do_blur)

\* C10: while _stopped is set, no put is past its test of _stopped: it has not
\* enqueued and is not about to, and it leaves _outstanding_frames alone.
C10_PutObservesStopped ==
    stopped => ppc = "idle"

\* C10 witness: update_classes is between its drain and connect_accl, and a put
\* made in that window has returned without enqueuing.
C10_Witness ==
    /\ stopped /\ put_outcome = "stopped"
    /\ CtlIn({"r_pred", "r_classes", "c_accl", "c_lock"})
    /\ put_calls > accepted

\* C11: a put made after stop() has completed ends with an outcome its caller can
\* tell apart from that of an accepted put.
C11_RejectedPutIsDistinguishable ==
    put_outcome = "stopped" => PutReturns(put_outcome) # PutReturns("accepted")

\* C12: the k-th sentinel ends the k-th accelerator, the one that was running
\* when stop() was called, never the accelerator update_classes connects
\* afterwards; and that new accelerator is the one that consumes the frames put
\* accepts after update_classes has returned.
C12_NewAcceleratorServesAfterReconfigure ==
    /\ \A e \in Accls : spc[e] = "ended" => e < n_sentinels
    /\ \A e \in Accls :
          (spc[e] \in {"got", "ret"} /\ sdata[e].gen >= 1) => e = sdata[e].gen

\* stop() of thread t has placed its sentinel and is about to set _stopped, and
\* no other thread was in get at any moment since it took _stop_lock
StopReturnsUndisturbed(t) == upc[t] = "s_set" /\ ~stop_raced

\* what C13 promises at the return of stop()
StopDrainedAll ==
    /\ stop_discarded = stop_inflight
    /\ outstanding_frames = 0
    /\ middle_q = <<>>
    /\ output_q = <<>>

\* C13: a stop() called with k frames in flight, with no other thread calling
\* get, has retrieved and discarded exactly k results when it places the sentinel
\* and sets _stopped; _outstanding_frames is then 0 and middle_q and output_q are
\* empty.
C13_StopDrainsExactlyInFlight ==
    \A t \in Ctls : StopReturnsUndisturbed(t) => StopDrainedAll

\* the same, for the calls of stop() that found _outstanding_frames equal to the
\* number of frames in flight
StopDrainsWhenCounterIsRight ==
    \A t \in Ctls :
        (StopReturnsUndisturbed(t) /\ stop_counter = stop_inflight) => StopDrainedAll

\* the steps of update_classes from the drain to the resume (stop lines 212-220,
\* update_classes lines 285-312, connect_accl lines 188-202)
ProtocolSteps ==
    {"s_loop", "s_get", "s_gread", "s_gwrite", "s_put", "s_set",
     "r_pred", "r_classes", "c_accl", "c_lock"}

\* C14: at most one update_classes call is between its drain and its resume at
\* any moment, and whenever no call is under way the predictor, the class list
\* and the connected accelerator's model are those of one class set.
C14_UpdateClassesIsOneCriticalSection ==
    /\ Cardinality({t \in Ctls : upc[t] \in ProtocolSteps}) <= 1
    /\ (\A t \in Ctls : upc[t] = "idle")
          => /\ predictor = classes
             /\ classes = selected_classes
             /\ selected_classes = accl_model[accl]

\* C15: however many times and from however many threads stop() is called on a
\* running engine, one sentinel is placed on input_q for its accelerator, and
\* once _stopped is set exactly one has been placed.
C15_StopIsIdempotent ==
    /\ n_sentinels <= 1
    /\ stopped => n_sentinels = 1

\* stop() has completed and nothing in the engine can act any more: no call of
\* stop, update_classes or put is under way, no frame is anywhere in the
\* pipeline, and no input callback has an item of input_q to take
StoppedAndQuiet ==
    /\ stopped
    /\ \A t \in Ctls : upc[t] = "idle"
    /\ ppc = "idle"
    /\ PipelineEmpty
    /\ \A e \in Accls : spc[e] = "wait" => input_q = <<>>

\* C16: once stop() has completed no thread stays parked on a queue of the
\* engine: when the engine has come to rest, the accelerator's input callback
\* has been ended by the sentinel and no caller is parked in get.
C16_StopReleasesParkedThreads ==
    StoppedAndQuiet => (gpc # "g_park" /\ spc[accl] = "ended")

\* C17: a put that has passed the test of _stopped ends without enqueuing only
\* when it does not block for ever and input_q is full; that step raises
\* queue.Full, leaves input_q and _outstanding_frames as they were and releases
\* _stop_lock.
C17_FailedPutChangesNothing ==
    [][(ppc = "p_enq" /\ ppc' = "idle")
         => /\ ~pblock
            /\ Len(input_q) = INPUT_Q_MAXSIZE
            /\ PutReturns(put_outcome') = "raise queue.Full"
            /\ input_q' = input_q
            /\ outstanding_frames' = outstanding_frames
            /\ accepted' = accepted
            /\ stop_lock' = "free"]_vars

\* C17 witness: a put has failed on a full input_q; the frame that filled the
\* queue is still its only item and _stop_lock is free.
C17_Witness ==
    /\ put_outcome = "full" /\ ppc = "idle"
    /\ Len(input_q) = INPUT_Q_MAXSIZE /\ Head(input_q) # NoneData
    /\ stop_lock = "free"
    /\ put_calls > accepted

\* plot_dets has returned an image for a detection result without detections
RenderedWithoutDetections == plot_pc = "done" /\ ~plot_result.raised /\ dets = <<>>

\* C18: for every combination of flags plot_dets accepts, the image rendered for
\* a result with zero detections equals the input frame pixel by pixel.
C18_ZeroDetectionsLeaveFrameUnchanged ==
    RenderedWithoutDetections => plot_result.image = img

\* C18 as amended: the same, for the combinations in which remove_background is
\* false and no blur is in effect (do_blur false, or blur_sigma 0).
C18_ZeroDetectionsLeaveNormalBackgroundUnchanged ==
    (/\ RenderedWithoutDetections
     /\ ~opts.remove_background
     /\ ~(opts.do_blur /\ opts.blur_sigma > 0))
        => plot_result.image = img

\* C18 witness: a frame whose two pixels differ, rendered with boxes and labels
\* on, blur requested with sigma 0 and no detection, comes back unchanged.
C18_Witness ==
    /\ RenderedWithoutDetections
    /\ opts.do_blur /\ opts.blur_sigma = 0 /\ opts.do_det /\ opts.do_label
    /\ img[1] # img[2]
    /\ plot_result.image = img

\* C19: alert_active is true exactly while the single-shot timer is pending,
\* the message is 'NO ALERTS' whenever no alert is active, and every alert is
\* eventually cleared.
C19_AlertEventuallyCleared ==
    /\ [](alert_active <=> alert_timer)
    /\ [](~alert_active => alert_label = "NO ALERTS")
    /\ (alert_active ~> ~alert_active)

\* C19 witness: the latest evaluation raised an alert and the timer has since
\* fired and cleared it.
C19_Witness ==
    /\ last_triggers # <<>>
    /\ ~alert_active /\ ~alert_timer
    /\ alert_label = "NO ALERTS"

\* the objects trigger_security_alert was called for in the latest evaluation
Triggered == {last_triggers[k] : k \in DOMAIN last_triggers}

\* C20: every call of trigger_security_alert is for a track whose name is in
\* search_targets and whose ID was not among the previous evaluation's visible
\* targets; 'Unknown' raises none when the targets are the database's profiles,
\* and an empty target set raises none.
C20_AlertsOnlyForNewTargets ==
    /\ \A o \in Triggered :
          /\ o.name \in search_targets
          /\ o \in now_visible
          /\ o.track_id \notin {q.track_id : q \in prev_visible}
          /\ target_name = "" => o.name # "Unknown"
    /\ search_targets = {} => last_triggers = <<>>

\* C20 witness: with the targets taken from a database that holds an 'Unknown'
\* profile, an evaluation saw a track named 'Unknown' beside a target; it raised
\* an alert for the target only.
C20_Witness ==
    /\ target_name = "" /\ "Unknown" \in database
    /\ \E k \in DOMAIN tracked_objects :
          /\ tracked_objects[k].name = "Unknown"
          /\ tracked_objects[k] \notin Triggered
    /\ \E o \in Triggered : o \in now_visible /\ o.name # "Unknown"
    /\ Cardinality(Triggered) = 1

\* the number of trigger_security_alert calls for track i in the latest evaluation
AlertsFor(i) == Cardinality({k \in DOMAIN last_triggers : last_triggers[k].track_id = i})

\* C8: a track that is a visible search target in two consecutive evaluations
\* raises no alert in the second one; a track that becomes a visible search
\* target raises exactly one.
C8_OneAlertWhileVisible ==
    \A o \in now_visible :
        AlertsFor(o.track_id) =
            IF o.track_id \in {q.track_id : q \in prev_visible} THEN 0 ELSE 1

\* C8 witness: a track stayed a visible search target, with the same track ID,
\* over two consecutive evaluations.
C8_Witness ==
    /\ evals >= 2
    /\ \E o \in now_visible : o \in prev_visible /\ AlertsFor(o.track_id) = 0

\* C9: when a target was visible in an earlier evaluation, was absent from the
\* previous evaluation (no visible track carried its name, and this track was not
\* visible), and a track of that name is visible in this one, exactly one alert
\* is raised for that track.
C9_OneAlertPerReappearance ==
    \A o \in now_visible :
        (/\ o.name \in ever_names
         /\ o.name \notin {q.name : q \in prev_visible}
         /\ o.track_id \notin {q.track_id : q \in prev_visible})
            => AlertsFor(o.track_id) = 1

\* C9 witness: a target that was visible and then absent is visible again and
\* has raised its alert.
C9_Witness ==
    /\ evals >= 3
    /\ \E o \in now_visible :
          /\ o.name \in ever_names
          /\ prev_visible = {}
          /\ AlertsFor(o.track_id) = 1
          /\ alert_active

\* the tracks of the activated list that are search targets and were not found
\* by the previous evaluation, in list order
NewTargetPositions ==
    {k \in DOMAIN tracked_objects :
        /\ tracked_objects[k].name # ""
        /\ tracked_objects[k].name \in search_targets
        /\ tracked_objects[k].track_id \notin last_found_persons}

\* C21: an evaluation in which several tracks with distinct target names newly
\* appear calls trigger_security_alert once per new track, in list order, and
\* leaves the message showing the name of the last one, the alert active and
\* the one single-shot timer pending.
C21_LastTriggeredNameIsShown ==
    [][(evals' = evals + 1 /\ Cardinality(NewTargetPositions) >= 2)
        => /\ Len(last_triggers') = Cardinality(NewTargetPositions)
           /\ \A k \in NewTargetPositions :
                 Cardinality({j \in DOMAIN last_triggers' :
                                 last_triggers'[j] = tracked_objects[k]}) = 1
           /\ LET last == CHOOSE k \in NewTargetPositions :
                              \A j \in NewTargetPositions : j <= k
              IN alert_label' = tracked_objects[last].name
           /\ alert_active' /\ alert_timer']_vars

\* C21 witness: the latest evaluation raised alerts for two tracks with different
\* names, and the message shows the second one's name while the timer is pending.
C21_Witness ==
    /\ Len(last_triggers) = 2
    /\ last_triggers[1].name # last_triggers[2].name
    /\ alert_label = last_triggers[2].name
    /\ alert_active /\ alert_timer

\* C22: the key enrollment uses for its synthetic entry is never the ID of a live
\* track: the insert of line 851 / 996 never replaces a live track's entry and
\* the del of line 886 / 1031 never removes one.
C22_SyntheticKeyIsNeverALiveTrack ==
    /\ ~overwritten_live
    /\ ~deleted_live

\* the gallery and the profile directories are as the running (or latest)
\* enrollment found them
DiskUnchanged ==
    /\ profile_dirs = e_dirs0
    /\ profile_files = e_files0
    /\ gallery = e_gallery0

\* C23: an enrollment writes a reference image and calls add_to_database only
\* after a poll observed a populated embedding; after the recognition timeout
\* or an exception it goes through the cleanup back to its caller, with the
\* gallery and the profile directories unchanged.
C23_EnrollmentPersistsOnlyOnSuccess ==
    /\ ~DiskUnchanged => (e_outcome = "ok" /\ embedding # "none" /\ Norm(embedding) > 0)
    /\ e_outcome \in {"timeout", "exception"} =>
          /\ epc \in {"cleanup", "cleanup_locked", "return", "idle"}
          /\ DiskUnchanged

\* C23 witness: an enrollment whose recognition timed out has returned, its
\* request still waiting in the recognition queue.
C23_Witness ==
    /\ n_enroll = 1 /\ epc = "idle"
    /\ e_outcome = "timeout"
    /\ recognize_q # <<>>
    /\ embedding = "none"
    /\ DiskUnchanged

\* C24: every embedding enrollment has passed to add_to_database has non-zero
\* norm; the np.zeros placeholder of the synthetic entry is never stored in the
\* gallery.
C24_PersistedEmbeddingsAreNonZero ==
    /\ \A k \in DOMAIN saved :
          /\ saved[k].embedding \notin {"none", "zeros"}
          /\ Norm(saved[k].embedding) > 0
    /\ \A n \in EnrollNames : \A k \in DOMAIN gallery[n] :
          gallery[n][k] # "zeros" /\ Norm(gallery[n][k]) > 0

\* C24 witness: the enrollment stored the embedding the recognition worker
\* computed from the uploaded image.
C24_Witness ==
    /\ saved # <<>>
    /\ saved[Len(saved)].embedding = "vecU"
    /\ e_outcome = "ok"
    /\ \E n \in EnrollNames :
          /\ gallery[n] # <<>>
          /\ gallery[n][Len(gallery[n])] = "vecU"

\* the positions of the enrollment between 'with tracker_dict_lock:' and the
\* end of that block
EnrollInWithBlock == epc \in {"insert_locked", "poll_locked", "cleanup_locked"}

\* C25: the GUI thread holds tracker_dict_lock only inside the three with
\* blocks that read or write tracker_dict: not during recognize_put, not during
\* the sleep between polls, not during the disk and gallery calls; so whenever
\* the enrollment is at one of those, the recognition worker's write is not
\* kept out by it.
C25_LockHeldOnlyForMapAccess ==
    /\ tracker_dict_lock = "G" <=> EnrollInWithBlock
    /\ epc \in {"recognize_put", "poll", "sleep", "set_embedding", "save", "return"}
          => tracker_dict_lock = "free"
    /\ (wpc = "compute" /\ ~EnrollInWithBlock) => ENABLED WorkerWrite

\* C25 witness: the enrollment sleeps between two polls while the worker is
\* about to write the embedding back.
C25_Witness ==
    /\ epc = "sleep"
    /\ wpc = "compute" /\ wreq.track_id = SPECIAL_TRACK_ID
    /\ tracker_dict_lock = "free"
    /\ fake_embedding = "zeros"

\* C26: each successful enrollment writes <i>.jpg for the smallest i >= 0 that
\* is not in the profile directory, so it replaces no reference image, and adds
\* exactly one embedding under that profile; two successful enrollments under
\* one name leave two different images and two embeddings under it.
C26_EnrollmentAppendsOneImageOneEmbedding ==
    /\ [][saved' # saved =>
            LET r == saved'[Len(saved')]
            IN /\ Len(saved') = Len(saved) + 1
               /\ r.index \notin profile_files[r.name]
               /\ \A j \in 0..(r.index - 1) : j \in profile_files[r.name]
               /\ profile_files' = [profile_files EXCEPT ![r.name] = @ \cup {r.index}]
               /\ gallery' = [gallery EXCEPT ![r.name] = Append(@, r.embedding)]]_vars
    /\ []((Len(saved) = 2 /\ saved[1].name = saved[2].name) =>
            /\ saved[1].index # saved[2].index
            /\ {saved[1].index, saved[2].index} \subseteq profile_files[saved[1].name]
            /\ Len(gallery[saved[1].name]) >= 2)
    /\ [](\A n \in EnrollNames : Len(gallery[n]) = Cardinality(profile_files[n]))

\* C26 witness: a profile that held only 1.jpg received two enrollments, stored
\* as 0.jpg and 2.jpg, and holds three embeddings.
C26_Witness ==
    /\ Len(saved) = 2
    /\ saved[1].name = "Alice" /\ saved[2].name = "Alice"
    /\ saved[1].index = 0 /\ saved[2].index = 2
    /\ profile_files["Alice"] = {0, 1, 2}
    /\ Len(gallery["Alice"]) = 3

\* C27: once a step of update_classes after the drain has raised, the engine
\* stays stopped: _stopped remains True and no later put enqueues a frame on
\* this instance.
C27_FailedReconfigureLeavesEngineStopped ==
    update_raised => (stopped /\ ppc # "p_enq")

\* the same until the caller calls update_classes again
StoppedUntilNextUpdate ==
    (update_raised /\ ~retried) => (stopped /\ ppc # "p_enq")

\* C28: every frame is rendered with the visualization flags of the Framedata it
\* was submitted in: the flags _data_sink hands to plot_dets are the flags of
\* the frame it took from middle_q, with any number of frames in flight.
C28_FrameRenderedWithItsOwnFlags ==
    /\ \A r \in BuiltResults : r.rm = r.req_rm /\ r.blur = r.req_blur
    /\ nret > 0 => (last_ret.rm = last_ret.req_rm /\ last_ret.blur = last_ret.req_blur)

\* C29: a click on the viewer stops or tears down no pipeline stage and leaves
\* the compositor's paused flag equal to capture_thread.pause, so that a second
\* click resumes the production of frames; while the capture thread is paused,
\* every tick of poll_framerates that finds a tracker.current_frame calls
\* compositor.draw on a copy of that frame.
C29_PauseKeepsStagesAndRedraws ==
    /\ [][n_toggles' = n_toggles + 1 =>
            /\ stages_running' = stages_running
            /\ compositor_paused' = capture_pause']_vars
    /\ [][(n_polls' = n_polls + 1 /\ capture_pause /\ current_frame # 0) =>
            /\ n_draws' = n_draws + 1
            /\ last_draw' = [frame |-> current_frame, copy |-> TRUE]]_vars
    /\ [](compositor_paused = capture_pause)
    /\ []((stages_running = Stages /\ ~capture_pause /\ n_captured < MaxCaptured)
            => ENABLED CaptureFrame)

\* C29 witness: after a frame, a click paused the capture thread, a tick redrew
\* the frame, and a second click resumed the capture thread, which has produced
\* the next frame.
C29_Witness ==
    /\ n_toggles >= 2 /\ ~capture_pause /\ ~compositor_paused
    /\ n_draws >= 1 /\ last_draw = [frame |-> 1, copy |-> TRUE]
    /\ current_frame = 2
    /\ stages_running = Stages

\* C30: in the loop of process_video every put returns, also after earlier get
\* calls timed out: put is never left waiting for room in input_q, holding
\* _stop_lock, with the pipeline unable to move and no thread calling get.
C30_PutNeverBlocksForever ==
    /\ []((vpc = "v_enqueue" /\ stop_lock = "V")
            => (QueueHasRoom(input_q, INPUT_Q_MAXSIZE) \/ ENABLED PipelineStep))
    /\ (vpc = "v_enqueue" ~> vpc = "v_get")

\* C30 witness: five get calls timed out, the pipeline filled up, and the
\* seventh put has returned.
C30_Witness ==
    /\ v_timeouts >= 5
    /\ v_puts = 7 /\ accepted = 7
    /\ vpc = "v_get"
    /\ stop_lock = "free"

\* C31: every call of stop() returns: its drain loop ends, also while other
\* threads call put and get, and it does not wait for ever for _stop_lock or for
\* room in input_q.
C31_StopEventuallyReturns ==
    \A t \in Ctls : (upc[t] = "s_check") ~> (upc[t] = "idle")

\* the drain loop of the stop() that holds _stop_lock can still end: the counter
\* is positive only while a result is still to come or a get is about to
\* decrement it
DrainCanEnd ==
    (CtlIn({"s_loop", "s_get"}) /\ outstanding_frames > 0)
        => (~PipelineEmpty \/ gpc \in {"g_read", "g_write"})

\* C32: whenever empty() is True no accepted frame is still awaiting retrieval:
\* _outstanding_frames is 0 and no frame is in middle_q or inside the
\* accelerator.
C32_EmptyMeansNothingAwaitsRetrieval ==
    empty => /\ outstanding_frames = 0
             /\ middle_q = <<>>
             /\ \A e \in Accls : /\ chip[e] = <<>>
                                 /\ spc[e] \notin {"got", "ret"}
                                 /\ kpc[e] \notin {"post", "plot", "put"}

\* the pixels a call of plot_dets draws an object on: the masks of the detections
\* the filter keeps and, with do_det or do_label, their boxes and labels
ObjectPixels ==
    UNION {(dets[k].seg \cup (IF opts.do_det \/ opts.do_label THEN dets[k].box ELSE {})) :
             k \in {j \in DOMAIN dets :
                      opts.filter.none \/ Names[dets[j].cls + 1] \in opts.filter.names}}

\* C33: in every frame plot_dets renders, all the pixels that show no object
\* are those of one background: black when remove_background is true, the
\* blurred frame when do_blur is true and blur_sigma > 0, and the original frame
\* otherwise, so also with do_blur true and blur_sigma 0.
C33_BackgroundChosenOnce ==
    (plot_pc = "done" /\ ~plot_result.raised)
        => \A i \in Pixels \ ObjectPixels :
              plot_result.image[i] =
                  IF opts.remove_background THEN 0
                  ELSE IF opts.do_blur /\ opts.blur_sigma > 0
                         THEN (img[1] + img[2]) \div 2
                  ELSE img[i]

\* C33 witness: blur is requested with sigma 0 on a frame whose blur would differ
\* from it; an object is drawn on one pixel and the other pixel shows the
\* original frame.
C33_Witness ==
    /\ plot_pc = "done" /\ ~plot_result.raised
    /\ opts.do_blur /\ opts.blur_sigma = 0
    /\ img[1] # img[2]
    /\ ObjectPixels = {1}
    /\ plot_result.image[1] # img[1]
    /\ plot_result.image[2] = img[2]
    /\ GaussianBlur(img, 1)[2] # img[2]

\* the class name of detection d is in the list of selected classes (or the
\* filter is None)
InSelectedClasses(d) == opts.filter.none \/ Names[d.cls + 1] \in opts.filter.names

\* C34: a detection whose class name is not in the selected classes contributes
\* nothing to the rendered frame: in every background mode the frame is the one
\* plot_dets renders from the other detections alone.
C34_UnselectedDetectionsContributeNothing ==
    (plot_pc = "done" /\ ~plot_result.raised)
        => plot_result.image = PlotDets(img, SelectSeq(dets, InSelectedClasses), opts).image

\* C34 witness: with the background removed, a detection of an unselected class
\* with a mask and a box on pixel 1 comes with a selected one on pixel 2; pixel 1
\* is black although the frame is not, and pixel 2 shows the selected object.
C34_Witness ==
    /\ plot_pc = "done" /\ ~plot_result.raised
    /\ Len(dets) = 2
    /\ ~InSelectedClasses(dets[1]) /\ dets[1].seg = {1} /\ dets[1].box = {1}
    /\ InSelectedClasses(dets[2]) /\ dets[2].seg = {2} /\ dets[2].box = {2}
    /\ opts.remove_background /\ opts.do_seg /\ opts.do_det /\ opts.do_label
    /\ img[1] # 0
    /\ plot_result.image[1] = 0
    /\ plot_result.image[2] # 0

\* C35: the result detect_faces_in_image obtains from detect_get is the result
\* for the image it submitted: while it runs the detection thread does not
\* consume that result, and no live frame's result is returned in its place.
C35_UploadGetsItsOwnResult ==
    /\ ~thread_took_upload
    /\ (fpc = "f_finally" /\ f_result # DetectionTimeout)
          => f_result = UploadedImage(n_uploads + 1)

\* while detect_faces_in_image runs, the detection thread consumes nothing
DetectionThreadPausedDuringUpload ==
    /\ ~thread_took_upload
    /\ fpc \in {"f_put", "f_get", "f_finally"} => dtpc = "stopped"

\* an enrollment function has run to its return
EnrollmentReturned == n_enroll > 0 /\ epc \in {"return", "idle"}

\* C36: after process_face_like_mouse_click or
\* process_target_face_automatically returns, on success, on a recognition
\* timeout and on an exception alike, tracker_dict contains no entry under the
\* synthetic track ID.
C36_NoEntryUnderSyntheticIdAfterReturn ==
    EnrollmentReturned => tracker_dict[SPECIAL_TRACK_ID] = "none"

\* the same for the synthetic object itself: once the function has returned the
\* map does not hold fake_obj
SyntheticObjectRemovedOnReturn ==
    EnrollmentReturned => tracker_dict[SPECIAL_TRACK_ID] # "fake"

\* process_uploaded_image has returned from an upload's enrollment
UploadProcessed == epc = "idle" /\ n_enroll > 0 /\ e_kind = "upload"

\* the enrollment stored the image and the embedding of the selected face
UploadPersisted == profile_files # e_files0 /\ gallery # e_gallery0

\* C37: process_uploaded_image shows the success message and refreshes the
\* search targets only when the selected face's image and embedding were
\* persisted; after a recognition timeout or a recognition error no success is
\* reported.
C37_SuccessOnlyWhenPersisted ==
    (UploadProcessed /\ (upload_message = "Success" \/ targets_refreshed))
        => (UploadPersisted /\ e_outcome = "ok")
NoTwoEntriesShareImdbId ==
    \A i, j \in DOMAIN watched_movies :
        watched_movies[i].imdb_id = watched_movies[j].imdb_id => i = j

\* the step in which POST request r passes its lookup while the list holds
\* the movie it asks for
DuplicateChecked(r) ==
    /\ post_pc[r] = "await" /\ post_pc'[r] # "await"
    /\ AlreadyWatched(post_id[r])

\* C38: the watched list never holds two entries with the same imdb_id,
\* however the concurrent POST requests interleave, and a request for a movie
\* that is already present answers 409 and leaves the list unchanged.
C38_NoDuplicateAndAlways409 ==
    /\ [](NoTwoEntriesShareImdbId)
    /\ [][\A r \in PostRequests :
            DuplicateChecked(r) =>
                post_resp'[r] = 409 /\ watched_movies' = watched_movies]_vars

\* C38, amended: the list never holds two entries with the same imdb_id, and
\* a request for a movie that is already present leaves the list unchanged
\* and answers 409 when its OMDb lookup succeeds, 404 when the lookup fails.
C38_NoDuplicateAnd409WhenLookupSucceeds ==
    /\ [](NoTwoEntriesShareImdbId)
    /\ [][\A r \in PostRequests :
            DuplicateChecked(r) =>
                /\ post_resp'[r] = (IF post_found'[r] THEN 409 ELSE 404)
                /\ watched_movies' = watched_movies]_vars

\* two POSTs for one movie, under different movie ids, awaited the lookup
\* together; one was added and the other answered 409
C38_Witness ==
    /\ overlapped
    /\ Len(watched_movies) = 1
    /\ \E r, q \in PostRequests :
          /\ post_resp[r] = 200 /\ post_resp[q] = 409 /\ post_present[q]
          /\ post_id[r] # post_id[q]
          /\ ImdbIdOf(post_id[r]) = ImdbIdOf(post_id[q])

\* the durations of the first n entries of the watched list, added up
RECURSIVE DurationsUpTo(_)
DurationsUpTo(n) ==
    IF n = 0 THEN 0 ELSE watched_movies[n].duration + DurationsUpTo(n - 1)

\* C39: after any sequence of add and remove operations, the stats request
\* answers total_count equal to the number of entries of the watched list and
\* total_minutes equal to the sum of their durations, both 0 for an empty
\* list; the list is the one the request found, no add or remove having
\* changed it since the request began.
C39_StatsMatchTheList ==
    (stats_pc = "done" /\ ~list_changed) =>
        /\ stats_resp.total_count = Len(watched_movies)
        /\ stats_resp.total_minutes = DurationsUpTo(Len(watched_movies))
        /\ (watched_movies = <<>> =>
               stats_resp.total_count = 0 /\ stats_resp.total_minutes = 0)

\* stats answered after two adds and a remove that left a movie with a
\* duration in the list
C39_Witness ==
    /\ stats_pc = "done" /\ ~list_changed
    /\ del_pc = "done" /\ del_resp = 200
    /\ Len(watched_movies) = 1
    /\ stats_resp.total_minutes > 0

\* the step in which a DELETE binds the global to its new list
DeleteStores == del_pc = "filtered" /\ del_pc' = "stored"

\* a POST is rejected in this step
PostRejected(r) == post_resp'[r] # post_resp[r] /\ post_resp'[r] \in {400, 404, 409, 500}

\* the DELETE found no entry with its movie id when it was called
NoEntryMatched == Len(del_list) = del_len

\* C40: DELETE removes exactly the entries whose movie id equals the id of
\* the request and keeps all others in their order; when no entry matches it
\* answers 404; and every rejected request (400, 404, 409 and 500 on add, 404
\* on delete) leaves the watched list unchanged.
C40_DeleteExactAndRejectionsChangeNothing ==
    /\ [][DeleteStores =>
            watched_movies' = SelectSeq(watched_movies, LAMBDA entry : entry.id # del_id)]_vars
    /\ []((del_pc = "done" /\ NoEntryMatched) => del_resp = 404)
    /\ [][\A r \in PostRequests : PostRejected(r) => watched_movies' = watched_movies]_vars
    /\ []((del_pc = "done" /\ del_resp = 404) => ~del_changed)

\* for every DELETE during which no POST appends: it removes exactly the
\* entries with its movie id, answers 404 when none matched and 200 when one
\* did, and with 404 leaves the list as it was
DeleteWithoutAppendBesideIt ==
    /\ [][(DeleteStores /\ ~del_raced) =>
            watched_movies' = SelectSeq(watched_movies, LAMBDA entry : entry.id # del_id)]_vars
    /\ []((del_pc = "done" /\ ~del_raced) =>
            /\ del_resp = (IF NoEntryMatched THEN 404 ELSE 200)
            /\ (del_resp = 404 => ~del_changed))

====
